---- MODULE Spec2Model ----
(***************************************************************************)
(* Fact-Whisper: the real-time call session pipeline.                      *)
(*                                                                         *)
(* One Node.js process serves several media WebSocket sessions.  Every     *)
(* callback and every stretch of an async function between two awaits runs *)
(* to completion on the single event loop, so each action below is one     *)
(* such stretch: a socket event handler, the transcript callback, the      *)
(* resumption of a claim task after one of its external calls returned, a  *)
(* timer callback.                                                         *)
(*                                                                         *)
(* Strings that the code parses are tuples of one-character strings, so    *)
(* trim / startsWith / slice are computed as the code computes them.       *)
(***************************************************************************)
EXTENDS Integers, Sequences, FiniteSets, TLC

\* ------------------------------------------------------------------ bounds
\* The environment's events are budgeted: a run starts with one of the budget
\* profiles below (how many connections, inbound messages, socket close/error
\* events, speech-to-text connection drops, Results events and clock ticks it
\* may see) and each event spends
\* one unit.  The clock advances in steps of TickMs.
TickMs == 30000
MaxMsgs == 2
MaxResults == 2
MaxTicks == 2

\* ------------------------------------------------------- program constants
CLAIM_COOLDOWN_MS == 60000
MAX_BUFFER_SEGMENTS == 30
CONTEXT_SEGMENTS == 10
CHUNK_SIZE == 160
TTS_SAMPLE_RATE == 22050
TELEPHONY_RATE == 8000

\* ------------------------------------------------------------ JS values
\* null / undefined for string-valued expressions: one-element tuples whose
\* element is no single character, so they equal no modelled string.
NULL == <<"<null>">>
UNDEFINED == <<"<undefined>">>
\* null / undefined for stream identifiers (atomic strings).
SID_NULL == "<null>"
SID_UNDEFINED == "<undefined>"

\* JS truthiness of a string-or-null value: '' , null and undefined are falsy.
Truthy_UnlessNullish(v) == v # NULL /\ v # UNDEFINED
Truthy(v) == v # NULL /\ v # UNDEFINED /\ v # <<>>
SidTruthy(sid) == sid # SID_NULL /\ sid # SID_UNDEFINED /\ sid # ""

Min(S) == CHOOSE x \in S : \A y \in S : x <= y
Max(S) == CHOOSE x \in S : \A y \in S : x >= y

\* String.prototype.trim / startsWith / slice(n) on character tuples.
IsWhitespace(ch) == ch \in {" ", "\n", "\t"}
Trim(str) ==
    LET keep == {i \in 1..Len(str) : ~IsWhitespace(str[i])}
    IN  IF keep = {} THEN <<>> ELSE SubSeq(str, Min(keep), Max(keep))
StartsWith(str, prefix) ==
    Len(str) >= Len(prefix) /\ SubSeq(str, 1, Len(prefix)) = prefix
Slice(str, n) == SubSeq(str, n + 1, Len(str))

\* Array.prototype.join(sep) on a sequence of character tuples.
RECURSIVE Join(_, _)
Join(strs, sep) ==
    IF strs = <<>> THEN <<>>
    ELSE IF Len(strs) = 1 THEN strs[1]
    ELSE strs[1] \o sep \o Join(Tail(strs), sep)

CLAIM_MARKER == <<"C", "L", "A", "I", "M", ":">>
CORRECTION_MARKER == <<"C", "O", "R", "R", "E", "C", "T", "I", "O", "N", ":">>

\* ------------------------------------------------------------- base64
\* Buffer.from(text, 'base64') and buf.toString('base64') on byte tuples;
\* the text is a tuple of characters of the standard alphabet, '='-padded.
B64_ALPHABET ==
    << "A", "B", "C", "D", "E", "F", "G", "H", "I", "J", "K", "L", "M",
       "N", "O", "P", "Q", "R", "S", "T", "U", "V", "W", "X", "Y", "Z",
       "a", "b", "c", "d", "e", "f", "g", "h", "i", "j", "k", "l", "m",
       "n", "o", "p", "q", "r", "s", "t", "u", "v", "w", "x", "y", "z",
       "0", "1", "2", "3", "4", "5", "6", "7", "8", "9", "+", "/" >>
B64Value(ch) == (CHOOSE i \in 1..Len(B64_ALPHABET) : B64_ALPHABET[i] = ch) - 1
B64Char(v) == B64_ALPHABET[v + 1]

RECURSIVE Base64Decode(_)
Base64Decode(text) ==
    LET sextets == SelectSeq(text, LAMBDA ch : ch # "=")
    IN  IF Len(sextets) < 2 THEN <<>>
        ELSE LET take == IF Len(sextets) >= 4 THEN 4 ELSE Len(sextets)
                 v(i) == IF i <= take THEN B64Value(sextets[i]) ELSE 0
                 word == v(1) * 262144 + v(2) * 4096 + v(3) * 64 + v(4)
                 bytes == << (word \div 65536) % 256, (word \div 256) % 256, word % 256 >>
             IN  SubSeq(bytes, 1, take - 1) \o Base64Decode(SubSeq(sextets, take + 1, Len(sextets)))

RECURSIVE Base64Encode(_)
Base64Encode(bytes) ==
    IF bytes = <<>> THEN <<>>
    ELSE LET take == IF Len(bytes) >= 3 THEN 3 ELSE Len(bytes)
             b(i) == IF i <= take THEN bytes[i] ELSE 0
             word == b(1) * 65536 + b(2) * 256 + b(3)
             chars == << B64Char((word \div 262144) % 64), B64Char((word \div 4096) % 64),
                         B64Char((word \div 64) % 64), B64Char(word % 64) >>
             padded == [i \in 1..4 |-> IF i <= take + 1 THEN chars[i] ELSE "="]
         IN  padded \o Base64Encode(SubSeq(bytes, take + 1, Len(bytes)))

\* --------------------------------------------------- twilio.js: parsing
\* A raw inbound message, as JSON.parse would see it: json = FALSE is text
\* that is no JSON; event = "" is a missing event field; media / start say
\* whether the media / start object is present.
RawMessage(json, event, streamSid, media, payload, start, startSid) ==
    [json |-> json, event |-> event, streamSid |-> streamSid, media |-> media,
     payload |-> payload, start |-> start, startSid |-> startSid]

Parsed(type, audio, streamSid) == [type |-> type, audio |-> audio, streamSid |-> streamSid]

parseTwilioMessage(message) ==
    IF ~message.json THEN Parsed("error", <<>>, SID_UNDEFINED)
    ELSE IF message.event = "media" THEN
        IF ~message.media \/ message.payload = UNDEFINED
        THEN Parsed("error", <<>>, SID_UNDEFINED)
        ELSE Parsed("media", Base64Decode(message.payload), message.streamSid)
    ELSE IF message.event = "start" THEN
        Parsed("start", <<>>, IF message.start THEN message.startSid ELSE SID_UNDEFINED)
    ELSE IF message.event = "stop" THEN Parsed("stop", <<>>, SID_UNDEFINED)
    ELSE IF message.event = "connected" THEN Parsed("connected", <<>>, SID_UNDEFINED)
    ELSE Parsed(IF message.event = "" THEN "unknown" ELSE message.event, <<>>, SID_UNDEFINED)

\* sendAudioToTwilio's loop: the chunk that starts at each offset 0, 160, ...
ChunkOffsets(length) == {o \in 0..length : o % CHUNK_SIZE = 0 /\ o < length}
ChunkAt_Overrun(buffer, offset) == SubSeq(buffer, offset + 1, Len(buffer))
ChunkAt_Short(buffer, offset) ==
    SubSeq(buffer, offset + 1, IF offset + CHUNK_SIZE - 1 < Len(buffer) THEN offset + CHUNK_SIZE - 1 ELSE Len(buffer))
ChunkAt(buffer, offset) ==
    SubSeq(buffer, offset + 1, IF offset + CHUNK_SIZE < Len(buffer) THEN offset + CHUNK_SIZE ELSE Len(buffer))
MediaMessage(chunk, streamSid) ==
    [event |-> "media", streamSid |-> streamSid, payload |-> Base64Encode(chunk)]

\* The messages sendAudioToTwilio passes to ws.send for one buffer, in order:
\* one per chunk, each sent only if the socket is open when its turn comes.
\* readings[k] is what ws.readyState yields in the k-th pass of the loop.
NumChunks(length) == (length + CHUNK_SIZE - 1) \div CHUNK_SIZE
SocketOpen_UnlessClosed(state) == state # "CLOSED"
SocketOpen(state) == state = "OPEN"
RECURSIVE FramesFrom(_, _, _, _)
FramesFrom(readings, mulawBuffer, streamSid, offset) ==
    IF offset >= Len(mulawBuffer) THEN <<>>
    ELSE (IF SocketOpen(readings[offset \div CHUNK_SIZE + 1])
          THEN << MediaMessage(ChunkAt(mulawBuffer, offset), streamSid) >>
          ELSE <<>>)
         \o FramesFrom(readings, mulawBuffer, streamSid, offset + CHUNK_SIZE)
sendAudioWhile(readings, mulawBuffer, streamSid) ==
    FramesFrom(readings, mulawBuffer, streamSid, 0)
\* Nothing runs between two passes of the loop, so within a session every
\* pass reads the state the socket had when the call began.
sendAudioToTwilio_FirstChunkOnly(readyState, mulawBuffer, streamSid) ==
    sendAudioWhile(<< readyState >>, ChunkAt(mulawBuffer, 0), streamSid)
sendAudioToTwilio(readyState, mulawBuffer, streamSid) ==
    sendAudioWhile([k \in 1..NumChunks(Len(mulawBuffer)) |-> readyState], mulawBuffer, streamSid)

\* --------------------------------------------------- twilio.js: webhook
\* String order as Array.prototype.sort uses it, on the characters the
\* parameter names of the model are written in.
CharRank(ch) == CASE ch = "a" -> 1 [] ch = "b" -> 2 [] ch = "c" -> 3
RECURSIVE StrLess(_, _)
StrLess(a, b) ==
    IF a = <<>> THEN b # <<>>
    ELSE IF b = <<>> THEN FALSE
    ELSE IF a[1] = b[1] THEN StrLess(Tail(a), Tail(b))
    ELSE CharRank(a[1]) < CharRank(b[1])
RECURSIVE SortedKeys(_)
SortedKeys(keys) ==
    IF keys = {} THEN <<>>
    ELSE LET first == CHOOSE k \in keys : \A other \in keys \ {k} : StrLess(k, other)
         IN  << first >> \o SortedKeys(keys \ {first})

\* createHmac('sha1', key).update(data).digest('base64'), as an ideal keyed
\* digest: two digests are equal exactly when key and data are equal.
HmacSha1Base64(key, data) == << "hmac(" >> \o key \o << "," >> \o data \o << ")" >>

\* The URL the signature covers and the string that is signed.
SignedUrl(req) ==
    (IF Truthy(req.forwardedProto) THEN req.forwardedProto ELSE req.protocol)
        \o << ":", "/", "/" >> \o req.host \o req.originalUrl
SignedData(req) ==
    LET sortedKeys == SortedKeys(DOMAIN req.body)
    IN  SignedUrl(req) \o Join([i \in 1..Len(sortedKeys) |-> sortedKeys[i] \o req.body[sortedKeys[i]]], <<>>)
ExpectedSignature(authToken, req) == HmacSha1Base64(authToken, SignedData(req))

\* validateTwilioSignature: TRUE is next(), FALSE is sendStatus(403).
ValidSignature_IfPresent(authToken, req) == Truthy(req.signature)
ValidSignature(authToken, req) ==
    /\ Truthy(req.signature)
    /\ req.signature = ExpectedSignature(authToken, req)

\* The router: the signature check, then the route that matches.
Response(status, handler, streamUrl) == [status |-> status, handler |-> handler, streamUrl |-> streamUrl]
INBOUND_PATH == << "/", "i", "n", "b", "o", "u", "n", "d" >>
STATUS_PATH == << "/", "s", "t", "a", "t", "u", "s" >>
TwimlRouter(wsUrl, authToken, req) ==
    IF ~ValidSignature(authToken, req) THEN Response(403, "none", <<>>)
    ELSE IF req.method = "POST" /\ req.path = INBOUND_PATH THEN Response(200, "inbound", wsUrl)
    ELSE IF req.method = "POST" /\ req.path = STATUS_PATH THEN Response(200, "status", <<>>)
    ELSE Response(404, "none", <<>>)

\* ------------------------------------------------- claims.js: parsing
\* A response content block: type "text" carries text; any other type (a
\* tool use, a search result) carries none.
TextBlock(text) == [type |-> "text", text |-> text]
OtherBlock(type) == [type |-> type, text |-> UNDEFINED]

\* response.content[0]?.text?.trim() || ''
FirstBlockText(content) ==
    IF content = <<>> THEN <<>>
    ELSE IF content[1].text = UNDEFINED THEN <<>>
    ELSE Trim(content[1].text)

\* detectClaim's result for a collaborator outcome: a rejected call (ok =
\* FALSE) is caught and gives null.
detectClaimResult_Unmarked(outcome) == IF ~outcome.ok THEN NULL ELSE FirstBlockText(outcome.content)
detectClaimResult(outcome) ==
    IF ~outcome.ok THEN NULL
    ELSE LET text == FirstBlockText(outcome.content)
         IN  IF StartsWith(text, CLAIM_MARKER) THEN Trim(Slice(text, Len(CLAIM_MARKER))) ELSE NULL

\* response.content.filter(type === 'text').map(text).join('').trim()
RECURSIVE ConcatTextBlocks(_)
ConcatTextBlocks(content) ==
    IF content = <<>> THEN <<>>
    ELSE (IF content[1].type = "text" THEN content[1].text ELSE <<>>)
         \o ConcatTextBlocks(Tail(content))

verifyClaimResult_FirstBlock(outcome) ==
    IF ~outcome.ok THEN NULL
    ELSE LET text == FirstBlockText(outcome.content)
         IN  IF StartsWith(text, CORRECTION_MARKER)
             THEN Trim(Slice(text, Len(CORRECTION_MARKER)))
             ELSE NULL
verifyClaimResult(outcome) ==
    IF ~outcome.ok THEN NULL
    ELSE LET text == Trim(ConcatTextBlocks(outcome.content))
         IN  IF StartsWith(text, CORRECTION_MARKER)
             THEN Trim(Slice(text, Len(CORRECTION_MARKER)))
             ELSE NULL

\* ------------------------------------------------------------ audio.js
MULAW_BIAS == 132
MULAW_CLIP == 32635

\* An Int16Array view of a Buffer of little-endian int16s (a trailing odd
\* byte is outside the view), and the Buffer over an Int16Array's bytes.
Int16At(lo, hi) == IF lo + 256 * hi >= 32768 THEN lo + 256 * hi - 65536 ELSE lo + 256 * hi
SamplesOf(pcmBuffer) ==
    [i \in 1..(Len(pcmBuffer) \div 2) |-> Int16At(pcmBuffer[2 * i - 1], pcmBuffer[2 * i])]
BytesOf(samples) ==
    [k \in 1..(2 * Len(samples)) |->
        LET u == (samples[(k + 1) \div 2] + 65536) % 65536
        IN  IF k % 2 = 1 THEN u % 256 ELSE u \div 256]

\* The loop of encodeMuLawSample: the highest exponent whose mask bit is set
\* in the biased sample, searching down from (7, 0x4000) and stopping at 0.
RECURSIVE MuLawExponent(_, _, _)
MuLawExponent(sample, exponent, expMask) ==
    IF (sample \div expMask) % 2 = 0 /\ exponent > 0
    THEN MuLawExponent(sample, exponent - 1, expMask \div 2)
    ELSE exponent

RECURSIVE Pow2(_)
Pow2(n) == IF n = 0 THEN 1 ELSE 2 * Pow2(n - 1)

encodeMuLawSample_Unclipped(sample) ==
    LET sign == IF sample < 0 THEN 128 ELSE 0
        magnitude == IF sample < 0 THEN -sample ELSE sample
        biased == magnitude + MULAW_BIAS
        exponent == MuLawExponent(biased, 7, 16384)
        mantissa == (biased \div Pow2(exponent + 3)) % 16
    IN  255 - (sign + exponent * 16 + mantissa)
encodeMuLawSample(sample) ==
    LET sign == IF sample < 0 THEN 128 ELSE 0
        magnitude == IF sample < 0 THEN -sample ELSE sample
        clipped == IF magnitude > MULAW_CLIP THEN MULAW_CLIP ELSE magnitude
        biased == clipped + MULAW_BIAS
        exponent == MuLawExponent(biased, 7, 16384)
        mantissa == (biased \div Pow2(exponent + 3)) % 16
    IN  255 - (sign + exponent * 16 + mantissa)

decodeMuLawSample(muLawByte) ==
    LET inverted == 255 - muLawByte
        sign == (inverted \div 128) % 2
        exponent == (inverted \div 16) % 8
        mantissa == inverted % 16
        sample == (mantissa * 8 + MULAW_BIAS) * Pow2(exponent) - MULAW_BIAS
    IN  IF sign = 1 THEN -sample ELSE sample

encodeMuLaw(samples) == [i \in 1..Len(samples) |-> encodeMuLawSample(samples[i])]
decodeMuLaw(mulawBuffer) == [i \in 1..Len(mulawBuffer) |-> decodeMuLawSample(mulawBuffer[i])]

\* Math.round(n / d) for d > 0: the nearest integer, halves rounded up.
RoundDiv(n, d) == (2 * n + d) \div (2 * d)

\* ---- double-precision division, as sourceRate / targetRate and
\* samples.length / ratio are computed. A magnitude of up to 78 bits is six
\* limbs of 13 bits, lowest first.
LIMB == 8192
Big(n) == << n % LIMB, (n \div LIMB) % LIMB, n \div (LIMB * LIMB), 0, 0, 0 >>
BigInc(a) ==
    LET d1 == a[1] + 1
        d2 == a[2] + d1 \div LIMB
        d3 == a[3] + d2 \div LIMB
        d4 == a[4] + d3 \div LIMB
        d5 == a[5] + d4 \div LIMB
    IN  << d1 % LIMB, d2 % LIMB, d3 % LIMB, d4 % LIMB, d5 % LIMB, a[6] + d5 \div LIMB >>
\* a * k for 0 <= k < 2^17.
BigTimes(a, k) ==
    LET d1 == a[1] * k
        d2 == a[2] * k + d1 \div LIMB
        d3 == a[3] * k + d2 \div LIMB
        d4 == a[4] * k + d3 \div LIMB
        d5 == a[5] * k + d4 \div LIMB
    IN  << d1 % LIMB, d2 % LIMB, d3 % LIMB, d4 % LIMB, d5 % LIMB, a[6] * k + d5 \div LIMB >>
BigLess(a, b) == \E i \in 1..6 : a[i] < b[i] /\ \A j \in (i + 1)..6 : a[j] = b[j]
\* a - b for a >= b.
BigSub(a, b) ==
    LET s1 == a[1] - b[1]
        b1 == IF s1 < 0 THEN 1 ELSE 0
        s2 == a[2] - b[2] - b1
        b2 == IF s2 < 0 THEN 1 ELSE 0
        s3 == a[3] - b[3] - b2
        b3 == IF s3 < 0 THEN 1 ELSE 0
        s4 == a[4] - b[4] - b3
        b4 == IF s4 < 0 THEN 1 ELSE 0
        s5 == a[5] - b[5] - b4
        b5 == IF s5 < 0 THEN 1 ELSE 0
    IN  << s1 + b1 * LIMB, s2 + b2 * LIMB, s3 + b3 * LIMB, s4 + b4 * LIMB, s5 + b5 * LIMB,
           a[6] - b[6] - b5 >>
\* n * 2^z for 0 <= n < 2^17.
BigShifted(n, z) ==
    LET v == n * Pow2(z % 13)
        first == z \div 13 + 1
    IN  [i \in 1..6 |->
            IF i = first THEN v % LIMB
            ELSE IF i = first + 1 THEN (v \div LIMB) % LIMB
            ELSE IF i = first + 2 THEN v \div (LIMB * LIMB)
            ELSE 0]

\* a / b brought into [1, 2): num / den = (a / b) * 2^e.
RECURSIVE Normalise(_, _, _)
Normalise(a, b, e) ==
    IF a < b THEN Normalise(2 * a, b, e - 1)
    ELSE IF a >= 2 * b THEN Normalise(a, 2 * b, e + 1)
    ELSE [a |-> a, b |-> b, e |-> e]
\* The double num / den for positive integers below 2^17: m * 2^(e - 52)
\* with a 53-bit m, by long division in four steps of 13 bits, rounded to
\* nearest, ties to even.
DoubleQuotient(num, den) ==
    LET n == Normalise(num, den, 0)
        r0 == n.a - n.b
        d1 == (r0 * LIMB) \div n.b
        r1 == (r0 * LIMB) % n.b
        d2 == (r1 * LIMB) \div n.b
        r2 == (r1 * LIMB) % n.b
        d3 == (r2 * LIMB) \div n.b
        r3 == (r2 * LIMB) % n.b
        d4 == (r3 * LIMB) \div n.b
        r4 == (r3 * LIMB) % n.b
        m == << d4, d3, d2, d1, 1, 0 >>
        up == 2 * r4 > n.b \/ (2 * r4 = n.b /\ d4 % 2 = 1)
    IN  [m |-> IF up THEN BigInc(m) ELSE m, e |-> n.e]

\* The largest q in lo..(hi - 1) with q * m <= total, by bisection.
RECURSIVE BigFloorDiv(_, _, _, _)
BigFloorDiv(total, m, lo, hi) ==
    IF hi - lo <= 1 THEN lo
    ELSE LET mid == (lo + hi) \div 2
         IN  IF BigLess(total, BigTimes(m, mid))
             THEN BigFloorDiv(total, m, lo, mid)
             ELSE BigFloorDiv(total, m, mid, hi)
RECURSIVE Log2Floor(_)
Log2Floor(k) == IF k < 2 THEN 0 ELSE 1 + Log2Floor(k \div 2)
\* Math.floor(n / ratio) for an integer 0 <= n < 2^17 and a double ratio,
\* the result below 2^17: the quotient n / ratio is itself rounded to a
\* double, so a quotient that lies within half a unit in the last place
\* below the integer q + 1 becomes q + 1.
FloorOfQuotient(n, ratio) ==
    LET total == BigShifted(n, 52 - ratio.e)
        q == BigFloorDiv(total, ratio.m, 0, 131072)
        next == q + 1
        short == BigSub(BigTimes(ratio.m, next), total)
        j == Log2Floor(next)
        h == IF next = Pow2(j) THEN 54 - j ELSE 53 - j
        top == (ratio.m[5] * LIMB + ratio.m[4]) * LIMB + ratio.m[3]
        half == Big(top \div Pow2(h - 26))
    IN  IF total = BigTimes(ratio.m, q) THEN q
        ELSE IF BigLess(half, short) THEN q
        ELSE next

\* resampleLinear on samples. The output length is computed in doubles as
\* the code computes it; the source position of output sample i is taken at
\* its exact value i * sourceRate / targetRate.
OutputLength(length, sourceRate, targetRate) ==
    FloorOfQuotient(length, DoubleQuotient(sourceRate, targetRate))
resampleLinear(samples, sourceRate, targetRate) ==
    IF sourceRate = targetRate THEN samples
    ELSE LET outputLength == OutputLength(Len(samples), sourceRate, targetRate)
         IN  [k \in 1..outputLength |->
                LET i == k - 1
                    idx == (i * sourceRate) \div targetRate
                    rem == (i * sourceRate) % targetRate
                IN  IF idx + 1 < Len(samples)
                    THEN RoundDiv(samples[idx + 1] * (targetRate - rem) + samples[idx + 2] * rem, targetRate)
                    ELSE IF idx < Len(samples) THEN samples[idx + 1] ELSE 0]

convertToTelephonyAudio_Unresampled(pcmBuffer, sourceRate) == encodeMuLaw(SamplesOf(pcmBuffer))
convertToTelephonyAudio(pcmBuffer, sourceRate) ==
    encodeMuLaw(resampleLinear(SamplesOf(pcmBuffer), sourceRate, TELEPHONY_RATE))

\* A number stored into an Int16Array element: kept modulo 2^16.
ToInt16(v) == ((v + 32768) % 65536) - 32768

\* attenuateAudio with factor = num / den.
attenuateAudio_Undecoded(mulawBuffer, num, den) ==
    [i \in 1..Len(mulawBuffer) |-> RoundDiv(mulawBuffer[i] * num, den) % 256]
attenuateAudio(mulawBuffer, num, den) ==
    LET samples == decodeMuLaw(mulawBuffer)
    IN  encodeMuLaw([i \in 1..Len(samples) |-> ToInt16(RoundDiv(samples[i] * num, den))])

\* -------------------------------------------------------------- tts.js
\* synthesize's result for a collaborator outcome: the request may be
\* rejected (ok = FALSE), or the stream may fail after some chunks (failed =
\* TRUE); both are caught and give null (NoAudio).
RECURSIVE ConcatChunks(_)
ConcatChunks(chunks) == IF chunks = <<>> THEN <<>> ELSE chunks[1] \o ConcatChunks(Tail(chunks))

NoAudio == [null |-> TRUE, pcmBuffer |-> <<>>, sampleRate |-> 0]
synthesizeResult_Partial(outcome) ==
    IF ~outcome.ok THEN NoAudio
    ELSE [null |-> FALSE, pcmBuffer |-> ConcatChunks(outcome.chunks), sampleRate |-> TTS_SAMPLE_RATE]
synthesizeResult(outcome) ==
    IF ~outcome.ok \/ outcome.failed THEN NoAudio
    ELSE [null |-> FALSE, pcmBuffer |-> ConcatChunks(outcome.chunks), sampleRate |-> TTS_SAMPLE_RATE]

\* =================================================================== state
Sessions == {"s1", "s2"}

VARIABLES
    conn,                 \* per session: "none" | "rejected" | "live"
    readyState,           \* per session: ws.readyState ("NONE" before the connection)
    streamSid,            \* per session: let streamSid
    transcriptBuffer,     \* per session: const transcriptBuffer
    recentClaims,         \* per session: const recentClaims (a Set)
    dgState,              \* per session: the speech-to-text connection's ready state
    closeRequests,        \* per session: number of deepgram.close() calls
    bridgeLog,            \* per session: every deepgram.send(audio) call, in order
    mediaIn,              \* per session: the audio of every inbound media message, in order
    outbound,             \* per session: every message passed to ws.send, in order
    seen,                 \* per session: which of stop / close / error were handled
    pendingVerifications, \* ClaimProcessor.pendingVerifications (one per process)
    timers,               \* the pending setTimeout callbacks, in creation order,
                          \* each with the time left until it is due
    sinceVerify,          \* per (session, claim): ms since verifyClaim was last called
    tasks,                \* every processClaim invocation, in dispatch order
    budget,               \* the environment events still allowed
    lastMessage,          \* the session and parsed.type of the inbound message handled last
    input,                \* a function under test and its arguments (function runs)
    output                \* what the function returned (function runs)

vars == << conn, readyState, streamSid, transcriptBuffer, recentClaims, dgState,
           closeRequests, bridgeLog, mediaIn, outbound, seen, pendingVerifications, timers,
           tasks, sinceVerify, budget, lastMessage, input, output >>

\* A function run applies one function of the program to one input, outside
\* any call; in the runs of the call pipeline no function is under test.
NoInput == [fn |-> "none"]
NoOutput == [done |-> FALSE]
NoMessage == [sess |-> "none", type |-> "none"]

sessionVars == << conn, readyState, streamSid, transcriptBuffer, dgState,
                  closeRequests, bridgeLog, mediaIn, seen >>

\* ------------------------------------------------------------- inputs
SidA == "MZa"
SidB == "MZb"
FrameA == <<"/", "w", "=", "=">>
FrameB == <<"A", "H", "8", "=">>

RawMessages ==
    { RawMessage(FALSE, "", SID_UNDEFINED, FALSE, UNDEFINED, FALSE, SID_UNDEFINED),
      RawMessage(TRUE, "", SID_UNDEFINED, FALSE, UNDEFINED, FALSE, SID_UNDEFINED),
      RawMessage(TRUE, "dtmf", SID_UNDEFINED, FALSE, UNDEFINED, FALSE, SID_UNDEFINED),
      RawMessage(TRUE, "connected", SID_UNDEFINED, FALSE, UNDEFINED, FALSE, SID_UNDEFINED),
      RawMessage(TRUE, "stop", SID_UNDEFINED, FALSE, UNDEFINED, FALSE, SID_UNDEFINED),
      RawMessage(TRUE, "start", SID_UNDEFINED, FALSE, UNDEFINED, TRUE, SidA),
      RawMessage(TRUE, "start", SID_UNDEFINED, FALSE, UNDEFINED, TRUE, SidB),
      RawMessage(TRUE, "start", SID_UNDEFINED, FALSE, UNDEFINED, TRUE, SID_UNDEFINED),
      RawMessage(TRUE, "start", SID_UNDEFINED, FALSE, UNDEFINED, FALSE, SID_UNDEFINED),
      RawMessage(TRUE, "media", SidA, TRUE, FrameA, FALSE, SID_UNDEFINED),
      RawMessage(TRUE, "media", SID_UNDEFINED, TRUE, FrameB, FALSE, SID_UNDEFINED),
      RawMessage(TRUE, "media", SidA, FALSE, UNDEFINED, FALSE, SID_UNDEFINED) }

\* Results events of the speech-to-text connection.  The k-th utterance of a
\* call has its own text; an interim event carries the part heard so far.
Utterance(k) == <<"u", B64_ALPHABET[k]>>
ResultEvents(k) ==
    { [transcript |-> UNDEFINED, is_final |-> TRUE],
      [transcript |-> <<>>, is_final |-> TRUE],
      [transcript |-> <<" ">>, is_final |-> TRUE],
      [transcript |-> SubSeq(Utterance(k), 1, 1), is_final |-> FALSE],
      [transcript |-> <<" ">> \o Utterance(k) \o <<"\n">>, is_final |-> TRUE] }

Text(marker, rest) == TextBlock(marker \o rest)

\* What the detection call can come back with.
DetectOutcomes ==
    { [ok |-> FALSE, content |-> <<>>],
      [ok |-> TRUE, content |-> <<>>],
      [ok |-> TRUE, content |-> << TextBlock(<<"N", "O", "N", "E">>) >>],
      [ok |-> TRUE, content |-> << Text(CLAIM_MARKER, <<>>) >>],
      [ok |-> TRUE, content |-> << Text(CLAIM_MARKER, <<" ", "a">>) >>],
      [ok |-> TRUE, content |-> << Text(CLAIM_MARKER, <<" ", "b", "\n">>) >>] }

\* What the verification call can come back with.
VerifyOutcomes ==
    { [ok |-> FALSE, content |-> <<>>],
      [ok |-> TRUE, content |-> << TextBlock(<<"C", "O", "R", "R", "E", "C", "T">>) >>],
      [ok |-> TRUE, content |-> << Text(CORRECTION_MARKER, <<>>) >>],
      [ok |-> TRUE, content |-> << OtherBlock("server_tool_use"),
                                   Text(CORRECTION_MARKER, <<" ">>),
                                   TextBlock(<<"x">>) >>] }

\* What the synthesis call can come back with: 12 bytes of PCM are 6 samples
\* at 22050 Hz, 2 samples at 8000 Hz, one short outbound frame.
SpokenChunks == << <<0, 64, 0, 64>>, <<0, 192, 0, 192, 16, 39, 16, 39>> >>
SynthOutcomes ==
    { [ok |-> FALSE, failed |-> FALSE, chunks |-> <<>>],
      [ok |-> TRUE, failed |-> TRUE, chunks |-> << <<0, 64>> >>],
      [ok |-> TRUE, failed |-> FALSE, chunks |-> <<>>],
      [ok |-> TRUE, failed |-> FALSE, chunks |-> SpokenChunks] }

\* ------------------------------------------------------------ helpers
InFlight(task) == task.pc # "done"
TasksOf(s) == {t \in 1..Len(tasks) : tasks[t].sess = s}
BusyTasks(s) == {t \in TasksOf(s) : InFlight(tasks[t])}

NewTask(s, segment, sid, context) ==
    [sess |-> s, segment |-> segment, sid |-> sid, context |-> context,
     pc |-> "detecting", claim |-> NULL, cooldownHit |-> FALSE,
     verifyGap |-> -1, verifyCall |-> "none", verifyEnd |-> "none",
     correction |-> NULL, synth |-> "none", whisperLen |-> -1, sent |-> 0,
     delivery |-> "none", closedAtPc |-> "none", closedBy |-> "none"]

\* A finished task keeps what it did and drops the arguments it ran with.
Finished(task) ==
    [task EXCEPT !.pc = "done", !.segment = <<>>, !.sid = SID_NULL, !.context = <<>>]

\* An event that ends the call (stop, close, error) marks the tasks it finds
\* in flight with the stage they are in.
MarkClosed(s, event) ==
    [t \in 1..Len(tasks) |->
        IF tasks[t].sess = s /\ InFlight(tasks[t]) /\ tasks[t].closedAtPc = "none"
        THEN [tasks[t] EXCEPT !.closedAtPc = tasks[t].pc, !.closedBy = event]
        ELSE tasks[t]]

\* The budget profiles: each is one family of runs.
Budget(conns, msgs, socket, drops, results, ticks) ==
    [conns |-> conns, msgs |-> msgs, socket |-> socket, drops |-> drops,
     results |-> results, ticks |-> ticks]
Profiles ==
    { Budget(1, MaxMsgs, 2, 1, 0, 0),                \* the transport's events
      Budget(1, 1, 1, 1, 1, 0),                      \* one task while the call ends
      Budget(1, 1, 0, 0, 2, 0),                      \* a frame and two tasks of one call
      Budget(1, 0, 0, 0, MaxResults, MaxTicks),      \* one call's tasks and the cooldown
      Budget(2, 0, 0, 0, MaxResults, 0) }            \* two calls' tasks
Spend(what) == budget' = [budget EXCEPT ![what] = @ - 1]

Init ==
    /\ conn = [s \in Sessions |-> "none"]
    /\ readyState = [s \in Sessions |-> "NONE"]
    /\ streamSid = [s \in Sessions |-> SID_NULL]
    /\ transcriptBuffer = [s \in Sessions |-> <<>>]
    /\ recentClaims = [s \in Sessions |-> {}]
    /\ dgState = [s \in Sessions |-> "none"]
    /\ closeRequests = [s \in Sessions |-> 0]
    /\ bridgeLog = [s \in Sessions |-> <<>>]
    /\ mediaIn = [s \in Sessions |-> <<>>]
    /\ outbound = [s \in Sessions |-> <<>>]
    /\ seen = [s \in Sessions |-> {}]
    /\ pendingVerifications = {}
    /\ timers = <<>>
    /\ tasks = <<>>
    /\ sinceVerify = {}
    /\ budget \in Profiles
    /\ lastMessage = NoMessage
    /\ input = NoInput
    /\ output = NoOutput

\* ============================================================== actions
\* ---- wss.on('connection'): token check, then the session's state.
MEDIA_SECRET == "secret"
Tokens == {MEDIA_SECRET, "wrong", SID_NULL}
TokenRejected_OnlyIfPresent(token) == token # MEDIA_SECRET /\ token # SID_NULL
TokenRejected(token) == token # MEDIA_SECRET

Connection(s, token) ==
    /\ conn[s] = "none"
    /\ budget.conns > 0
    /\ Spend("conns")
    /\ IF TokenRejected(token)
       THEN /\ conn' = [conn EXCEPT ![s] = "rejected"]
            /\ readyState' = [readyState EXCEPT ![s] = "CLOSING"]
            /\ UNCHANGED dgState
       ELSE /\ conn' = [conn EXCEPT ![s] = "live"]
            /\ readyState' = [readyState EXCEPT ![s] = "OPEN"]
            /\ dgState' = [dgState EXCEPT ![s] = "connecting"]
    /\ UNCHANGED << streamSid, transcriptBuffer, recentClaims, closeRequests, bridgeLog, mediaIn,
                    outbound, seen, pendingVerifications, timers, tasks, sinceVerify >>
    /\ UNCHANGED << lastMessage, input, output >>

\* ---- the bridge object returned by createDeepgramStream.
\* send(audioChunk): forwarded only while the connection's ready state is 1.
BridgeAccepts_UnlessClosed(state) == state # "closed"
BridgeAccepts(state) == state = "open"
BridgeSend_Newest1st(log, state, audio, busy) ==
    << [audio |-> audio, delivered |-> BridgeAccepts(state), busy |-> busy] >> \o log
BridgeSend(log, state, audio, busy) ==
    Append(log, [audio |-> audio, delivered |-> BridgeAccepts(state), busy |-> busy])
\* close(): connection.requestClose(); an open connection starts closing.
BridgeClose(state) == IF state = "open" THEN "closing" ELSE state

\* The frames the speech-to-text connection received.
dgReceived(s) ==
    LET kept == SelectSeq(bridgeLog[s], LAMBDA e : e.delivered)
    IN  [i \in 1..Len(kept) |-> kept[i].audio]

\* ---- ws.on('message'): the switch on parsed.type.
StreamSidAfter(current, parsed) ==
    IF parsed.type = "start" THEN parsed.streamSid
    ELSE IF parsed.type = "media" /\ ~SidTruthy(current) THEN parsed.streamSid
    ELSE current

\* case 'media' calls deepgram.send whatever the session's claim tasks are doing.
ForwardsToBridge_WhenIdle(type, busy) == type = "media" /\ ~busy
ForwardsToBridge(type, busy) == type = "media"

ClosesBridge_Never(type) == FALSE
ClosesBridge_OnUnhandled(type) == type \notin {"connected", "start", "media"}
ClosesBridge(type) == type = "stop"

Message(s, message) ==
    LET parsed == parseTwilioMessage(message) IN
    /\ conn[s] = "live"
    /\ readyState[s] = "OPEN"
    /\ budget.msgs > 0
    /\ Spend("msgs")
    /\ streamSid' = [streamSid EXCEPT ![s] = StreamSidAfter(streamSid[s], parsed)]
    /\ mediaIn' = [mediaIn EXCEPT ![s] = IF parsed.type = "media" THEN Append(@, parsed.audio) ELSE @]
    /\ bridgeLog' = [bridgeLog EXCEPT ![s] =
            IF ForwardsToBridge(parsed.type, BusyTasks(s) # {})
            THEN BridgeSend(@, dgState[s], parsed.audio, BusyTasks(s) # {})
            ELSE @]
    /\ IF ClosesBridge(parsed.type)
       THEN /\ dgState' = [dgState EXCEPT ![s] = BridgeClose(@)]
            /\ closeRequests' = [closeRequests EXCEPT ![s] = @ + 1]
       ELSE UNCHANGED << dgState, closeRequests >>
    /\ IF parsed.type = "stop"
       THEN /\ seen' = [seen EXCEPT ![s] = @ \cup {"stop"}]
            /\ tasks' = MarkClosed(s, "stop")
       ELSE UNCHANGED << seen, tasks >>
    /\ UNCHANGED << conn, readyState, transcriptBuffer, recentClaims, outbound,
                    pendingVerifications, timers, sinceVerify >>
    /\ lastMessage' = [sess |-> s, type |-> parsed.type]
    /\ UNCHANGED << input, output >>

\* ---- ws.on('close') and ws.on('error').  The ws library has the socket
\* CLOSED when it emits 'close' and CLOSING when it emits 'error'.
SocketClose(s) ==
    /\ conn[s] = "live"
    /\ readyState[s] \in {"OPEN", "CLOSING"}
    /\ budget.socket > 0
    /\ Spend("socket")
    /\ readyState' = [readyState EXCEPT ![s] = "CLOSED"]
    /\ dgState' = [dgState EXCEPT ![s] = BridgeClose(@)]
    /\ closeRequests' = [closeRequests EXCEPT ![s] = @ + 1]
    /\ seen' = [seen EXCEPT ![s] = @ \cup {"close"}]
    /\ tasks' = MarkClosed(s, "close")
    /\ UNCHANGED << conn, streamSid, transcriptBuffer, recentClaims, bridgeLog, mediaIn, outbound,
                    pendingVerifications, timers, sinceVerify >>
    /\ UNCHANGED << lastMessage, input, output >>

SocketError(s) ==
    /\ conn[s] = "live"
    /\ readyState[s] = "OPEN"
    /\ budget.socket > 0
    /\ Spend("socket")
    /\ readyState' = [readyState EXCEPT ![s] = "CLOSING"]
    /\ dgState' = [dgState EXCEPT ![s] = BridgeClose(@)]
    /\ closeRequests' = [closeRequests EXCEPT ![s] = @ + 1]
    /\ seen' = [seen EXCEPT ![s] = @ \cup {"error"}]
    /\ tasks' = MarkClosed(s, "error")
    /\ UNCHANGED << conn, streamSid, transcriptBuffer, recentClaims, bridgeLog, mediaIn, outbound,
                    pendingVerifications, timers, sinceVerify >>
    /\ UNCHANGED << lastMessage, input, output >>

\* ---- the speech-to-text connection: 'open' and 'close'.  A close requested
\* before the connection opened takes effect once it is open.
BridgeOpen(s) ==
    /\ dgState[s] = "connecting"
    /\ dgState' = [dgState EXCEPT ![s] = IF closeRequests[s] > 0 THEN "closing" ELSE "open"]
    /\ UNCHANGED << conn, readyState, streamSid, transcriptBuffer, recentClaims,
                    closeRequests, bridgeLog, mediaIn, outbound, seen, pendingVerifications,
                    timers, tasks, sinceVerify, budget >>
    /\ UNCHANGED << lastMessage, input, output >>

BridgeClosed(s) ==
    /\ dgState[s] \in {"connecting", "open", "closing"}
    /\ budget.drops > 0
    /\ Spend("drops")
    /\ dgState' = [dgState EXCEPT ![s] = "closed"]
    /\ UNCHANGED << conn, readyState, streamSid, transcriptBuffer, recentClaims,
                    closeRequests, bridgeLog, mediaIn, outbound, seen, pendingVerifications,
                    timers, tasks, sinceVerify >>
    /\ UNCHANGED << lastMessage, input, output >>

\* ---- connection.on('Results') and the session's transcript callback, up to
\* processClaim's first await (the detection call is issued).
BufferAfter_NewestDropped(buffer, segment) ==
    IF Len(buffer) >= MAX_BUFFER_SEGMENTS THEN buffer ELSE Append(buffer, segment)
BufferAfter(buffer, segment) ==
    LET pushed == Append(buffer, segment)
    IN  IF Len(pushed) > MAX_BUFFER_SEGMENTS THEN Tail(pushed) ELSE pushed

RecentContext_WholeBuffer(buffer) == Join(buffer, <<" ">>)
RecentContext(buffer) ==
    Join(SubSeq(buffer, IF Len(buffer) > CONTEXT_SEGMENTS THEN Len(buffer) - CONTEXT_SEGMENTS + 1 ELSE 1,
                Len(buffer)), <<" ">>)

\* The segment a Results event hands to processClaim, or NULL when the event
\* is dropped (no transcript, not final, empty after trim).
SegmentOf_AnyResult(data) ==
    IF ~Truthy(data.transcript) \/ ~Truthy(Trim(data.transcript)) THEN NULL ELSE Trim(data.transcript)
SegmentOf(data) ==
    IF ~Truthy(data.transcript) THEN NULL
    ELSE IF ~data.is_final THEN NULL
    ELSE IF ~Truthy(Trim(data.transcript)) THEN NULL
    ELSE Trim(data.transcript)

Results(s, data) ==
    LET segment == SegmentOf(data)
        buffer == BufferAfter(transcriptBuffer[s], segment)
    IN
    /\ conn[s] = "live"
    /\ dgState[s] \in {"open", "closing"}
    /\ budget.results > 0
    /\ Spend("results")
    /\ IF segment = NULL
       THEN UNCHANGED << transcriptBuffer, tasks >>
       ELSE /\ transcriptBuffer' = [transcriptBuffer EXCEPT ![s] = buffer]
            /\ tasks' = Append(tasks, NewTask(s, segment, streamSid[s], RecentContext(buffer)))
    /\ UNCHANGED << conn, readyState, streamSid, recentClaims, dgState, closeRequests,
                    bridgeLog, mediaIn, outbound, seen, pendingVerifications, timers, sinceVerify >>
    /\ UNCHANGED << lastMessage, input, output >>

\* ---- processClaim resumes after detectClaim: cooldown check, cooldown
\* entry and timer, then verifyClaim up to its await (pending check, pending
\* entry, the verification call is issued).
RecentlyChecked_Never(recent, claim) == FALSE
RecentlyChecked(recent, claim) == claim \in recent
AlreadyPending_Never(pending, claim) == FALSE
AlreadyPending(pending, claim) == claim \in pending
\* verifyClaim's return for a claim that is pending comes before the try:
\* the finally block does not run for it.
PendingAfterEarlyReturn_Cleared(pending, claim) == pending \ {claim}
PendingAfterEarlyReturn(pending, claim) == pending
\* this.pendingVerifications.add(claim), before the call is issued.
PendingAfterAdd_Skipped(pending, claim) == pending
PendingAfterAdd(pending, claim) == pending \cup {claim}
CooldownTimer_Due(s, claim) == [sess |-> s, claim |-> claim, left |-> 0]
CooldownTimer(s, claim) == [sess |-> s, claim |-> claim, left |-> CLAIM_COOLDOWN_MS]

\* The time since verifyClaim was last called for (s, claim); a first call
\* counts as a full window ago.  Intervals are kept up to the window's length.
VerifyGap(s, claim) ==
    LET last == {e \in sinceVerify : e.sess = s /\ e.claim = claim}
    IN  IF last = {} THEN CLAIM_COOLDOWN_MS ELSE (CHOOSE e \in last : TRUE).ago
VerifyCalled(s, claim) ==
    {e \in sinceVerify : ~(e.sess = s /\ e.claim = claim)} \cup {[sess |-> s, claim |-> claim, ago |-> 0]}

DetectReturn(t, outcome) ==
    LET task == tasks[t]
        s == task.sess
        claim == detectClaimResult(outcome)
    IN
    /\ task.pc = "detecting"
    /\ IF ~Truthy(claim)
       THEN /\ tasks' = [tasks EXCEPT ![t] = Finished([@ EXCEPT !.claim = claim])]
            /\ UNCHANGED << recentClaims, timers, pendingVerifications, sinceVerify >>
       ELSE IF RecentlyChecked(recentClaims[s], claim)
       THEN /\ tasks' = [tasks EXCEPT ![t] =
                    Finished([@ EXCEPT !.claim = claim, !.cooldownHit = TRUE])]
            /\ UNCHANGED << recentClaims, timers, pendingVerifications, sinceVerify >>
       ELSE /\ recentClaims' = [recentClaims EXCEPT ![s] = @ \cup {claim}]
            /\ timers' = Append(timers, CooldownTimer(s, claim))
            /\ sinceVerify' = VerifyCalled(s, claim)
            /\ IF AlreadyPending(pendingVerifications, claim)
               THEN /\ tasks' = [tasks EXCEPT ![t] =
                            Finished([@ EXCEPT !.claim = claim, !.verifyGap = VerifyGap(s, claim),
                                               !.verifyCall = "deduped"])]
                    /\ pendingVerifications' = PendingAfterEarlyReturn(pendingVerifications, claim)
               ELSE /\ tasks' = [tasks EXCEPT ![t] =
                            [@ EXCEPT !.pc = "verifying", !.claim = claim, !.verifyGap = VerifyGap(s, claim),
                                      !.verifyCall = "external"]]
                    /\ pendingVerifications' = PendingAfterAdd(pendingVerifications, claim)
    /\ UNCHANGED << sessionVars, outbound, budget >>
    /\ UNCHANGED << lastMessage, input, output >>

\* ---- verifyClaim resumes after the verification call (parse, catch,
\* finally), then processClaim up to whisperCorrection's await (the synthesis
\* call is issued).
PendingAfterReturn_KeptOnError(pending, claim, ok) == IF ok THEN pending \ {claim} ELSE pending
PendingAfterReturn(pending, claim, ok) == pending \ {claim}
StartsSynthesis_Always(correction) == TRUE
StartsSynthesis(correction) == Truthy(correction)

VerifyReturn(t, outcome) ==
    LET task == tasks[t]
        correction == verifyClaimResult(outcome)
    IN
    /\ task.pc = "verifying"
    /\ pendingVerifications' = PendingAfterReturn(pendingVerifications, task.claim, outcome.ok)
    /\ tasks' = [tasks EXCEPT ![t] =
            LET ended == [@ EXCEPT !.verifyEnd = IF outcome.ok THEN "returned" ELSE "error",
                                   !.correction = correction]
            IN  IF StartsSynthesis(correction)
                THEN [ended EXCEPT !.pc = "synthesizing", !.synth = "called"]
                ELSE Finished(ended)]
    /\ UNCHANGED << sessionVars, recentClaims, outbound, timers, sinceVerify, budget >>
    /\ UNCHANGED << lastMessage, input, output >>

\* ---- whisperCorrection resumes after synthesize: convert, attenuate, and
\* deliver if the socket is open and the task's stream identifier is set.
WHISPER_NUM == 1
WHISPER_DEN == 2
CanDeliver_WithoutSid(state, sid) == state = "OPEN"
CanDeliver_IgnoringSocket(state, sid) == SidTruthy(sid)
CanDeliver(state, sid) == state = "OPEN" /\ SidTruthy(sid)

\* sendAudioToTwilio calls ws.send once per chunk inside one synchronous
\* loop: the frames of one buffer go on the wire after everything sent before
\* and with nothing in between.
WireAfter_Interleaved(wire, frames) ==
    IF wire = <<>> \/ frames = <<>> THEN wire \o frames
    ELSE SubSeq(wire, 1, Len(wire) - 1) \o << frames[1], wire[Len(wire)] >> \o Tail(frames)
WireAfter(wire, frames) == wire \o frames

SynthReturn(t, outcome) ==
    LET task == tasks[t]
        s == task.sess
        result == synthesizeResult(outcome)
        mulawAudio == convertToTelephonyAudio(result.pcmBuffer, result.sampleRate)
        whisperAudio == attenuateAudio(mulawAudio, WHISPER_NUM, WHISPER_DEN)
        frames == sendAudioToTwilio(readyState[s], whisperAudio, task.sid)
    IN
    /\ task.pc = "synthesizing"
    /\ IF result.null
       THEN /\ tasks' = [tasks EXCEPT ![t] = Finished([@ EXCEPT !.synth = "null"])]
            /\ UNCHANGED outbound
       ELSE IF CanDeliver(readyState[s], task.sid)
       THEN /\ tasks' = [tasks EXCEPT ![t] =
                    Finished([@ EXCEPT !.synth = "audio", !.whisperLen = Len(whisperAudio),
                                       !.sent = Len(frames), !.delivery = "sent"])]
            /\ outbound' = [outbound EXCEPT ![s] = WireAfter(@, frames)]
       ELSE /\ tasks' = [tasks EXCEPT ![t] =
                    Finished([@ EXCEPT !.synth = "audio", !.whisperLen = Len(whisperAudio),
                                       !.delivery = "discarded"])]
            /\ UNCHANGED outbound
    /\ UNCHANGED << sessionVars, recentClaims, pendingVerifications, timers, sinceVerify, budget >>
    /\ UNCHANGED << lastMessage, input, output >>

\* ---- the cooldown timer's callback: recentClaims.delete(claim).  All timers
\* have the same delay, so they come due in creation order.
TimerFire ==
    /\ timers # <<>>
    /\ timers[1].left = 0
    /\ recentClaims' = [recentClaims EXCEPT ![timers[1].sess] = @ \ {timers[1].claim}]
    /\ timers' = Tail(timers)
    /\ UNCHANGED << sessionVars, outbound, pendingVerifications, tasks, sinceVerify, budget >>
    /\ UNCHANGED << lastMessage, input, output >>

\* ---- TickMs of time pass.  The program reads the clock only through its
\* timers, so time is let pass only while a timer is waiting for it.
Elapse(ms, step, cap) == IF ms + step > cap THEN cap ELSE ms + step
Remain(ms, step) == IF ms > step THEN ms - step ELSE 0

Tick ==
    /\ budget.ticks > 0
    /\ Spend("ticks")
    /\ \E i \in 1..Len(timers) : timers[i].left > 0
    /\ timers' = [i \in 1..Len(timers) |-> [timers[i] EXCEPT !.left = Remain(@, TickMs)]]
    /\ sinceVerify' = {[e EXCEPT !.ago = Elapse(@, TickMs, CLAIM_COOLDOWN_MS)] : e \in sinceVerify}
    /\ UNCHANGED << sessionVars, recentClaims, outbound, pendingVerifications, tasks >>
    /\ UNCHANGED << lastMessage, input, output >>

Next ==
    \/ \E s \in Sessions, token \in Tokens : Connection(s, token)
    \/ \E s \in Sessions, message \in RawMessages : Message(s, message)
    \/ \E s \in Sessions : SocketClose(s)
    \/ \E s \in Sessions : SocketError(s)
    \/ \E s \in Sessions : BridgeOpen(s)
    \/ \E s \in Sessions : BridgeClosed(s)
    \/ \E s \in Sessions : \E data \in ResultEvents(Cardinality(TasksOf(s)) + 1) : Results(s, data)
    \/ \E t \in 1..Len(tasks), outcome \in DetectOutcomes : DetectReturn(t, outcome)
    \/ \E t \in 1..Len(tasks), outcome \in VerifyOutcomes : VerifyReturn(t, outcome)
    \/ \E t \in 1..Len(tasks), outcome \in SynthOutcomes : SynthReturn(t, outcome)
    \/ TimerFire
    \/ Tick

Spec == Init /\ [][Next]_vars

\* ============================================================ a long call
\* A call that has been going on for a while: session s1 is open, its
\* speech-to-text connection is open, Backlog final segments were heard and
\* the detection of each found no claim.  The call goes on with more Results
\* events and the tasks they start.
Backlog == 29
LongCall == "s1"
PastTask == Finished(NewTask(LongCall, <<>>, SID_NULL, <<>>))

LongCallInit ==
    /\ conn = [s \in Sessions |-> IF s = LongCall THEN "live" ELSE "none"]
    /\ readyState = [s \in Sessions |-> IF s = LongCall THEN "OPEN" ELSE "NONE"]
    /\ streamSid = [s \in Sessions |-> SID_NULL]
    /\ transcriptBuffer = [s \in Sessions |->
            IF s = LongCall THEN [k \in 1..Backlog |-> Utterance(k)] ELSE <<>>]
    /\ recentClaims = [s \in Sessions |-> {}]
    /\ dgState = [s \in Sessions |-> IF s = LongCall THEN "open" ELSE "none"]
    /\ closeRequests = [s \in Sessions |-> 0]
    /\ bridgeLog = [s \in Sessions |-> <<>>]
    /\ mediaIn = [s \in Sessions |-> <<>>]
    /\ outbound = [s \in Sessions |-> <<>>]
    /\ seen = [s \in Sessions |-> {}]
    /\ pendingVerifications = {}
    /\ timers = <<>>
    /\ tasks = [k \in 1..Backlog |-> PastTask]
    /\ sinceVerify = {}
    /\ budget = Budget(0, 0, 0, 0, MaxResults, 0)
    /\ lastMessage = NoMessage
    /\ input = NoInput
    /\ output = NoOutput

LongCallNext ==
    \/ \E data \in ResultEvents(Cardinality(TasksOf(LongCall)) + 1) : Results(LongCall, data)
    \/ \E t \in 1..Len(tasks), outcome \in DetectOutcomes : DetectReturn(t, outcome)
    \/ \E t \in 1..Len(tasks), outcome \in VerifyOutcomes : VerifyReturn(t, outcome)
    \/ \E t \in 1..Len(tasks), outcome \in SynthOutcomes : SynthReturn(t, outcome)

LongCallSpec == LongCallInit /\ [][LongCallNext]_vars

\* ================================================== overlapping corrections
\* One call in progress: session s1 is open under stream identifier SidA and
\* its speech-to-text connection is open.  Each final segment starts a task;
\* the tasks' calls return in any order, and synthesis returns one of two
\* spoken corrections of 450 and 444 samples, each long enough for two
\* outbound frames.
OverlapCall == "s1"
SpeechA == BytesOf([i \in 1..450 |-> (((37 * i) % 200) - 100) * 50])
SpeechB == BytesOf([i \in 1..444 |-> (((53 * i) % 200) - 100) * 70])
Streamed(pcm) ==
    [ok |-> TRUE, failed |-> FALSE,
     chunks |-> << SubSeq(pcm, 1, Len(pcm) \div 2), SubSeq(pcm, Len(pcm) \div 2 + 1, Len(pcm)) >>]
OverlapSynthOutcomes ==
    { [ok |-> FALSE, failed |-> FALSE, chunks |-> <<>>], Streamed(SpeechA), Streamed(SpeechB) }

OverlapInit ==
    /\ conn = [s \in Sessions |-> IF s = OverlapCall THEN "live" ELSE "none"]
    /\ readyState = [s \in Sessions |-> IF s = OverlapCall THEN "OPEN" ELSE "NONE"]
    /\ streamSid = [s \in Sessions |-> IF s = OverlapCall THEN SidA ELSE SID_NULL]
    /\ transcriptBuffer = [s \in Sessions |-> <<>>]
    /\ recentClaims = [s \in Sessions |-> {}]
    /\ dgState = [s \in Sessions |-> IF s = OverlapCall THEN "open" ELSE "none"]
    /\ closeRequests = [s \in Sessions |-> 0]
    /\ bridgeLog = [s \in Sessions |-> <<>>]
    /\ mediaIn = [s \in Sessions |-> <<>>]
    /\ outbound = [s \in Sessions |-> <<>>]
    /\ seen = [s \in Sessions |-> {}]
    /\ pendingVerifications = {}
    /\ timers = <<>>
    /\ tasks = <<>>
    /\ sinceVerify = {}
    /\ budget = Budget(0, 0, 0, 0, MaxResults, 0)
    /\ lastMessage = NoMessage
    /\ input = NoInput
    /\ output = NoOutput

OverlapNext ==
    \/ \E data \in ResultEvents(Cardinality(TasksOf(OverlapCall)) + 1) : Results(OverlapCall, data)
    \/ \E t \in 1..Len(tasks), outcome \in DetectOutcomes : DetectReturn(t, outcome)
    \/ \E t \in 1..Len(tasks), outcome \in VerifyOutcomes : VerifyReturn(t, outcome)
    \/ \E t \in 1..Len(tasks), outcome \in OverlapSynthOutcomes : SynthReturn(t, outcome)

OverlapSpec == OverlapInit /\ [][OverlapNext]_vars

\* The same call, with the assumption the claims about eventual delivery
\* make: a call to a collaborator that a task is waiting for comes back
\* (with a result or an error), and the task's continuation then runs.
TaskResumes(t) ==
    /\ t <= Len(tasks)
    /\ \/ \E outcome \in DetectOutcomes : DetectReturn(t, outcome)
       \/ \E outcome \in VerifyOutcomes : VerifyReturn(t, outcome)
       \/ \E outcome \in OverlapSynthOutcomes : SynthReturn(t, outcome)

OverlapLiveSpec ==
    OverlapInit /\ [][OverlapNext]_vars /\ \A t \in 1..(MaxResults + 1) : WF_vars(TaskResumes(t))

\* ========================================================= function runs
\* A function run: the process is idle (no session, no task), one function
\* of the program is applied to one input, and its result is kept.
MaxBlocks == 2

\* detectClaim: the call is rejected, or reading its response throws (ok =
\* FALSE), or it returns up to MaxBlocks content blocks.
DetectTexts ==
    { <<>>,
      <<"N", "O", "N", "E">>,
      <<"C", "L", "A", "I", "M">>,
      CLAIM_MARKER,
      CLAIM_MARKER \o <<" ", "a">>,
      <<" ", "\n">> \o CLAIM_MARKER \o <<" ", "a", " ", "b", "\t", "\n">>,
      <<"c", "l", "a", "i", "m", ":", " ", "a">>,
      <<"N", "O", "N", "E", " ">> \o CLAIM_MARKER \o <<" ", "a">> }
DetectBlocks == {TextBlock(text) : text \in DetectTexts} \cup {OtherBlock("tool_use")}
BlockSeqs(blocks, n) == UNION {[1..k -> blocks] : k \in 0..n}
DetectInputs ==
    {[fn |-> "detectClaim", response |-> [ok |-> ok, content |-> content]] :
        ok \in BOOLEAN, content \in BlockSeqs(DetectBlocks, MaxBlocks)}

\* The codec: every 16-bit sample is encoded and decoded again.
INT16_MIN == -32768
INT16_MAX == 32767
CodecInputs == {[fn |-> "decodeMuLaw(encodeMuLaw)", sample |-> x] : x \in INT16_MIN..INT16_MAX}

\* resampleLinear: up to MaxSamples samples, or 10 or 20 ms of audio at
\* 24000 Hz, between the sample rates of the speech and telephony formats.
MaxSamples == 12
SampleRates == {8000, 22050, 24000, 44100}
SamplesOfLength(length) == [i \in 1..length |-> ((37 * i) % 200) - 100]
ResampleInputs ==
    {[fn |-> "resampleLinear", samples |-> SamplesOfLength(length),
      sourceRate |-> sourceRate, targetRate |-> targetRate] :
        length \in 0..MaxSamples \cup {240, 480},
        sourceRate \in SampleRates, targetRate \in SampleRates}

\* attenuateAudio: every one-byte buffer, and buffers of up to MaxBytes
\* bytes of silence, of the quietest and of the loudest codes; factors 0,
\* 1/4, 2/5 (the default), 1/2 (the session's), 3/4, 1 and 2.
MaxBytes == 2
Factors == { <<0, 1>>, <<1, 4>>, <<2, 5>>, <<1, 2>>, <<3, 4>>, <<1, 1>>, <<2, 1>> }
AttenuateBuffers ==
    {<< b >> : b \in 0..255} \cup BlockSeqs({255, 127, 254, 126, 0, 128}, MaxBytes)
AttenuateInputs ==
    {[fn |-> "attenuateAudio", mulawBuffer |-> buffer, num |-> f[1], den |-> f[2]] :
        buffer \in AttenuateBuffers, f \in Factors}

\* verifyClaim: the call is rejected (ok = FALSE) or returns up to MaxBlocks
\* content blocks: pieces of text and blocks of the search tool.
VerifyTexts ==
    { <<>>,
      << " " >>,
      << "a" >>,
      <<"C", "O", "R", "R", "E", "C", "T">>,
      CORRECTION_MARKER,
      <<"C", "O", "R", "R">>,
      <<"E", "C", "T", "I", "O", "N", ":", " ", "b", "\n">> }
VerifyBlocks ==
    {TextBlock(text) : text \in VerifyTexts} \cup {OtherBlock("web_search_tool_result")}
VerifyInputs ==
    {[fn |-> "verifyClaim", response |-> [ok |-> ok, content |-> content]] :
        ok \in BOOLEAN, content \in BlockSeqs(VerifyBlocks, MaxBlocks)}

\* sendAudioToTwilio: a buffer of up to MaxBufferLen bytes whose content
\* depends on its length, a stream identifier, and a socket of the server,
\* which is open, closing or closed and only ever moves forward through
\* these states: one reading of its state for each pass of the loop.
MaxBufferLen == 321
BufferOf(length) == [i \in 1..length |-> (37 * i + length) % 256]
SocketStage(state) == CASE state = "OPEN" -> 1 [] state = "CLOSING" -> 2 [] state = "CLOSED" -> 3
SocketReadings(n) ==
    {r \in [1..n -> {"OPEN", "CLOSING", "CLOSED"}] :
        \A k \in 1..(n - 1) : SocketStage(r[k]) <= SocketStage(r[k + 1])}
SendInputs ==
    UNION {{[fn |-> "sendAudioToTwilio", readings |-> readings,
             mulawBuffer |-> BufferOf(length), streamSid |-> SidA] :
                readings \in SocketReadings(NumChunks(length))} :
           length \in 0..MaxBufferLen}

\* synthesize: the request is rejected (ok = FALSE), or it streams up to
\* MaxChunks chunks and then ends or fails (failed = TRUE).
MaxChunks == 3
StreamChunks == { <<>>, <<1, 2>>, <<3>> }
SynthInputs ==
    {[fn |-> "synthesize", response |-> outcome] :
        outcome \in {[ok |-> FALSE, failed |-> FALSE, chunks |-> <<>>]} \cup
                    {[ok |-> TRUE, failed |-> failed, chunks |-> chunks] :
                        failed \in BOOLEAN, chunks \in BlockSeqs(StreamChunks, MaxChunks)}}

\* A webhook request: method, path under the mount point, protocol seen by
\* the server and named by the proxy, host, form parameters, and a signature
\* header that is absent, empty, made with the router's token for this
\* request, made with another token, or made for another URL or other
\* parameters.
AUTH_TOKEN == << "t", "o", "k", "e", "n" >>
OTHER_TOKEN == << "g", "u", "e", "s", "s" >>
WS_URL == << "w", "s", "s", ":", "/", "/", "h", "/", "m", "e", "d", "i", "a" >>
MOUNT_PATH == << "/", "t", "w", "i", "l", "i", "o" >>
HTTP == << "h", "t", "t", "p" >>
HTTPS == << "h", "t", "t", "p", "s" >>
RequestBodies ==
    { << >>,
      [k \in {<<"a">>} |-> <<"b", "c">>],
      [k \in {<<"b">>, <<"a", "b">>} |-> IF k = <<"b">> THEN <<"a">> ELSE <<"c">>] }
UnsignedRequests ==
    {[method |-> method, path |-> path, originalUrl |-> MOUNT_PATH \o path, protocol |-> HTTP,
      forwardedProto |-> forwarded, host |-> <<"h">>, body |-> body, signature |-> UNDEFINED] :
        method \in {"POST", "GET"},
        path \in {INBOUND_PATH, STATUS_PATH, << "/", "x" >>},
        forwarded \in {UNDEFINED, HTTPS},
        body \in RequestBodies}
SignaturesFor(req) ==
    { UNDEFINED, <<>>,
      ExpectedSignature(AUTH_TOKEN, req),
      ExpectedSignature(OTHER_TOKEN, req),
      ExpectedSignature(AUTH_TOKEN, [req EXCEPT !.forwardedProto = UNDEFINED]),
      ExpectedSignature(AUTH_TOKEN, [req EXCEPT !.forwardedProto = HTTPS]),
      ExpectedSignature(AUTH_TOKEN, [req EXCEPT !.body = << >>]) }
WebhookInputs ==
    UNION {{[fn |-> "webhook", wsUrl |-> WS_URL, authToken |-> AUTH_TOKEN,
             req |-> [req EXCEPT !.signature = signature]] :
                signature \in SignaturesFor(req)} :
           req \in UnsignedRequests}

FunctionInputs ==
    DetectInputs \cup VerifyInputs \cup SendInputs \cup SynthInputs \cup WebhookInputs \cup CodecInputs
        \cup ResampleInputs \cup AttenuateInputs

FunctionInit ==
    /\ conn = [s \in Sessions |-> "none"]
    /\ readyState = [s \in Sessions |-> "NONE"]
    /\ streamSid = [s \in Sessions |-> SID_NULL]
    /\ transcriptBuffer = [s \in Sessions |-> <<>>]
    /\ recentClaims = [s \in Sessions |-> {}]
    /\ dgState = [s \in Sessions |-> "none"]
    /\ closeRequests = [s \in Sessions |-> 0]
    /\ bridgeLog = [s \in Sessions |-> <<>>]
    /\ mediaIn = [s \in Sessions |-> <<>>]
    /\ outbound = [s \in Sessions |-> <<>>]
    /\ seen = [s \in Sessions |-> {}]
    /\ pendingVerifications = {}
    /\ timers = <<>>
    /\ tasks = <<>>
    /\ sinceVerify = {}
    /\ budget = Budget(0, 0, 0, 0, 0, 0)
    /\ lastMessage = NoMessage
    /\ input \in FunctionInputs
    /\ output = NoOutput

Returns(value) ==
    /\ ~output.done
    /\ output' = [done |-> TRUE, value |-> value]
    /\ UNCHANGED << sessionVars, recentClaims, outbound, pendingVerifications, timers,
                    tasks, sinceVerify, budget, lastMessage, input >>

CallDetectClaim ==
    /\ input.fn = "detectClaim"
    /\ Returns(detectClaimResult(input.response))

CallVerifyClaim ==
    /\ input.fn = "verifyClaim"
    /\ Returns(verifyClaimResult(input.response))

CallSendAudioToTwilio ==
    /\ input.fn = "sendAudioToTwilio"
    /\ Returns(sendAudioWhile(input.readings, input.mulawBuffer, input.streamSid))

CallSynthesize ==
    /\ input.fn = "synthesize"
    /\ Returns(synthesizeResult(input.response))

CallWebhook ==
    /\ input.fn = "webhook"
    /\ Returns(TwimlRouter(input.wsUrl, input.authToken, input.req))

CallCodec ==
    /\ input.fn = "decodeMuLaw(encodeMuLaw)"
    /\ Returns(decodeMuLaw(encodeMuLaw(<< input.sample >>))[1])

CallResampleLinear ==
    /\ input.fn = "resampleLinear"
    /\ Returns(resampleLinear(input.samples, input.sourceRate, input.targetRate))

CallAttenuateAudio ==
    /\ input.fn = "attenuateAudio"
    /\ Returns(attenuateAudio(input.mulawBuffer, input.num, input.den))

FunctionNext ==
    \/ CallDetectClaim
    \/ CallVerifyClaim
    \/ CallSendAudioToTwilio
    \/ CallSynthesize
    \/ CallWebhook
    \/ CallCodec
    \/ CallResampleLinear
    \/ CallAttenuateAudio

FunctionSpec == FunctionInit /\ [][FunctionNext]_vars

\* =============================================================== properties
Verifying(t) == tasks[t].pc = "verifying"
SameClaim(t1, t2) == tasks[t1].claim = tasks[t2].claim
SameCall(t1, t2) == tasks[t1].sess = tasks[t2].sess

\* The frames the first n tasks passed to ws.send on session s.
RECURSIVE FramesSentBy(_, _)
FramesSentBy(s, n) ==
    IF n = 0 THEN 0
    ELSE (IF tasks[n].sess = s THEN tasks[n].sent ELSE 0) + FramesSentBy(s, n - 1)

\* C1: at any time, over all tasks of all sessions, at most one external
\* verification call is in flight for one claim text: two tasks whose
\* verification calls are both in flight hold different claims.
C1_OneVerificationInFlight ==
    \A t1, t2 \in 1..Len(tasks) :
        (t1 # t2 /\ Verifying(t1) /\ Verifying(t2)) => ~SameClaim(t1, t2)

\* A verification call is in flight for a claim and another task's
\* verifyClaim for the same claim returned at once without an external call.
C1_Witness ==
    \E t1, t2 \in 1..Len(tasks) :
        /\ Verifying(t1)
        /\ tasks[t2].verifyCall = "deduped"
        /\ SameClaim(t1, t2)

\* C2: the pending set holds no stale entry: every claim in it belongs to a
\* verification call that is in flight now, so a claim whose verification
\* ended (correction, no correction, error) is verified afresh the next time.
C2_PendingClearedOnEveryExit ==
    \A claim \in pendingVerifications :
        \E t \in 1..Len(tasks) : Verifying(t) /\ tasks[t].claim = claim

\* A verification ended in a collaborator error and a later verifyClaim for
\* the same claim made an external call of its own.
C2_Witness ==
    \E t1, t2 \in 1..Len(tasks) :
        /\ tasks[t1].verifyEnd = "error"
        /\ SameClaim(t1, t2)
        /\ Verifying(t2)
        /\ tasks[t2].verifyCall = "external"

\* C3: a step passes frames to ws.send only if, in the state it starts from,
\* the session's socket is open, and every frame it sends carries a known
\* (truthy) stream identifier; the frames on a session's wire are exactly those
\* its tasks sent at their delivery step, so nothing is held back and sent later.
C3_DeliveryOnlyWhenOpenAndKnown ==
    [][\A s \in Sessions :
         /\ Len(outbound'[s]) = FramesSentBy(s, Len(tasks))'
         /\ outbound'[s] # outbound[s] =>
               /\ readyState[s] = "OPEN"
               /\ \A i \in (Len(outbound[s]) + 1)..Len(outbound'[s]) :
                      SidTruthy(outbound'[s][i].streamSid)]_vars

\* A correction was delivered: its frames are on the wire of an open session
\* under the stream identifier the transport supplied.
C3_Witness ==
    \E t \in 1..Len(tasks) :
        /\ tasks[t].delivery = "sent"
        /\ tasks[t].sent > 0
        /\ outbound[tasks[t].sess] # <<>>
        /\ outbound[tasks[t].sess][1].streamSid = SidA

\* C4: every verifyClaim call of a session for a claim text comes at least a
\* full cooldown window after the session's previous verifyClaim call for the
\* same text (a first call counts as a full window after).
C4_NoReverificationWithinCooldown ==
    \A t \in 1..Len(tasks) :
        tasks[t].verifyCall # "none" => tasks[t].verifyGap >= CLAIM_COOLDOWN_MS

\* One session called verifyClaim twice for the same text: the second call
\* came once the window had elapsed.
C4_Witness ==
    \E t1, t2 \in 1..Len(tasks) :
        /\ t1 < t2
        /\ SameCall(t1, t2)
        /\ SameClaim(t1, t2)
        /\ tasks[t1].verifyCall # "none"
        /\ tasks[t2].verifyCall # "none"

C6_StreamSidLatched ==
    [][\A s \in Sessions : SidTruthy(streamSid[s]) => streamSid'[s] = streamSid[s]]_vars

\* C7: whatever the session's claim tasks are doing, deepgram.send was called
\* once for every inbound media message, with its audio and in arrival order,
\* and one detection task was started for every final segment.
C7_InboundNeverBlocked ==
    \A s \in Sessions :
        /\ Len(bridgeLog[s]) = Len(mediaIn[s])
        /\ \A i \in 1..Len(bridgeLog[s]) : bridgeLog[s][i].audio = mediaIn[s][i]
        /\ Cardinality(TasksOf(s)) = Len(transcriptBuffer[s])

\* Two tasks of one session are in flight together (the second was started
\* while the first was running) and a media frame that arrived while a task
\* was in flight was forwarded.
C7_Witness ==
    \E s \in Sessions :
        /\ Cardinality(BusyTasks(s)) >= 2
        /\ \E i \in 1..Len(bridgeLog[s]) : bridgeLog[s][i].busy

\* C8: a task called verifyClaim only with a claim detectClaim returned, and
\* synthesize only with a correction that verifyClaim's external call
\* returned; a finished task with no claim made neither call, and one with no
\* correction made no synthesis call and sent no frame.
C8_StagesInOrder ==
    \A t \in 1..Len(tasks) :
        LET task == tasks[t] IN
        /\ task.verifyCall # "none" => Truthy(task.claim)
        /\ task.synth # "none" =>
              /\ Truthy(task.correction)
              /\ task.verifyCall = "external"
              /\ task.verifyEnd = "returned"
        /\ (~InFlight(task) /\ ~Truthy(task.claim)) =>
              task.verifyCall = "none" /\ task.synth = "none"
        /\ (~InFlight(task) /\ ~Truthy(task.correction)) =>
              task.synth = "none" /\ task.sent = 0 /\ task.delivery = "none"

\* One task ended at a no-claim detection and another at a no-correction
\* verification.
C8_Witness ==
    \E t1, t2 \in 1..Len(tasks) :
        /\ ~InFlight(tasks[t1]) /\ ~Truthy(tasks[t1].claim)
        /\ ~InFlight(tasks[t2]) /\ tasks[t2].verifyEnd = "returned"
        /\ ~Truthy(tasks[t2].correction)

\* C9: a task that was in flight when its call ended (stop, close or error)
\* ran the same stages as any other: verifyClaim if it had a fresh claim,
\* synthesize if it had a correction, conversion if it had audio; and if the
\* socket had closed or failed, the audio was discarded at the delivery step
\* and the task ended normally.
C9_TasksOutliveTheSocket ==
    \A t \in 1..Len(tasks) :
        LET task == tasks[t] IN
        (task.closedBy # "none" /\ ~InFlight(task)) =>
            /\ (Truthy(task.claim) /\ ~task.cooldownHit) => task.verifyCall # "none"
            /\ Truthy(task.correction) => task.synth \in {"null", "audio"}
            /\ task.synth = "audio" =>
                  /\ task.whisperLen >= 0
                  /\ task.closedBy \in {"close", "error"} =>
                        task.delivery = "discarded" /\ task.sent = 0

\* A task that was still detecting when the socket closed went on through
\* verification, synthesis and conversion, and its audio was discarded.
C9_Witness ==
    \E t \in 1..Len(tasks) :
        /\ tasks[t].closedBy = "close"
        /\ tasks[t].closedAtPc = "detecting"
        /\ SidTruthy(streamSid[tasks[t].sess])
        /\ tasks[t].synth = "audio"
        /\ tasks[t].whisperLen > 0
        /\ tasks[t].delivery = "discarded"

\* C10: deepgram.close() was called at least once for each of stop, socket
\* close and socket error that the session has handled.
C10_EndOfCallClosesBridge ==
    \A s \in Sessions : closeRequests[s] >= Cardinality(seen[s])

\* A session handled a stop, a socket error and the socket's close.
C10_Witness ==
    \E s \in Sessions :
        /\ seen[s] = {"stop", "close", "error"}
        /\ closeRequests[s] >= 3

\* The audio of a spoken correction taken through the stages one by one:
\* resample to the telephony rate, encode, attenuate.
StagedWhisper ==
    LET resampled == resampleLinear(SamplesOf(ConcatChunks(SpokenChunks)), TTS_SAMPLE_RATE, TELEPHONY_RATE)
        encoded == encodeMuLaw(resampled)
    IN  attenuateAudio(encoded, WHISPER_NUM, WHISPER_DEN)
StagedPayloads ==
    {Base64Encode(ChunkAt(StagedWhisper, o)) : o \in ChunkOffsets(Len(StagedWhisper))}

\* C11: a task that sent frames had its synthesis return audio and its
\* conversion and attenuation done, and every frame on the wire is a chunk of
\* the synthesized audio resampled, then encoded, then attenuated.
C11_StagesBeforeDelivery ==
    /\ \A t \in 1..Len(tasks) :
          tasks[t].sent > 0 =>
              /\ tasks[t].synth = "audio"
              /\ tasks[t].whisperLen = Len(StagedWhisper)
              /\ tasks[t].sent = Cardinality(ChunkOffsets(Len(StagedWhisper)))
    /\ \A s \in Sessions : \A i \in 1..Len(outbound[s]) :
          outbound[s][i].payload \in StagedPayloads

\* A correction went through every stage and its frame is on the wire.
C11_Witness ==
    \E t \in 1..Len(tasks) :
        /\ tasks[t].sent = 1
        /\ tasks[t].whisperLen = 2
        /\ Len(outbound[tasks[t].sess]) = 1
        /\ Base64Decode(outbound[tasks[t].sess][1].payload) = StagedWhisper

\* The text detectClaim reads: the first content block's, without the
\* whitespace around it; none if the call failed or the block has no text.
Called(fn) == input.fn = fn /\ output.done
DetectedText ==
    LET content == input.response.content
    IN  IF ~input.response.ok \/ content = <<>> THEN <<>>
        ELSE IF content[1].type # "text" THEN <<>>
        ELSE Trim(content[1].text)
HasClaimMarker(text) ==
    Len(text) >= 6 /\ SubSeq(text, 1, 6) = <<"C", "L", "A", "I", "M", ":">>

\* C12: detectClaim returns for every outcome of its collaborator call: null
\* when the call failed, when the response has no block or no text, and when
\* the text does not start with "CLAIM:"; otherwise the text after the
\* marker, trimmed.
C12_DetectNeverRaises ==
    Called("detectClaim") =>
        IF HasClaimMarker(DetectedText)
        THEN output.value = Trim(SubSeq(DetectedText, 7, Len(DetectedText)))
        ELSE output.value = NULL

\* A failed call resolved to null.
C12_Witness ==
    /\ Called("detectClaim")
    /\ ~input.response.ok
    /\ output.value = NULL

\* C13: a session's buffer holds exactly its complete utterances, trimmed, one
\* per final non-empty Results event, and one detection task was started for
\* each; an interim, empty or whitespace-only event leaves neither a segment
\* nor a task.
C13_OnlyFinalSegments ==
    \A s \in Sessions :
        /\ \A i \in 1..Len(transcriptBuffer[s]) : transcriptBuffer[s][i] = Utterance(i)
        /\ \A t \in TasksOf(s) :
              InFlight(tasks[t]) =>
                  \E i \in 1..Len(transcriptBuffer[s]) : tasks[t].segment = transcriptBuffer[s][i]
        /\ Len(transcriptBuffer[s]) = Cardinality(TasksOf(s))

\* A run with no inbound message has handled all its Results events (at least
\* two), and only one of them left a segment and a task: the others were
\* interim or empty and were dropped.
C13_Witness ==
    /\ lastMessage = NoMessage
    /\ budget.msgs = 0
    /\ budget.results = 0
    /\ Len(tasks) = 1
    /\ \E s \in Sessions : transcriptBuffer[s] = << Utterance(1) >>

\* C14: after any number of final segments the buffer holds at most 30 of
\* them: the most recent ones, in arrival order (the n-th segment of the call
\* is Utterance(n), and a task was started for each).
C14_BufferBounded ==
    \A s \in Sessions :
        LET n == Cardinality(TasksOf(s))
            buffer == transcriptBuffer[s]
        IN  /\ Len(buffer) <= MAX_BUFFER_SEGMENTS
            /\ Len(buffer) = IF n < MAX_BUFFER_SEGMENTS THEN n ELSE MAX_BUFFER_SEGMENTS
            /\ \A i \in 1..Len(buffer) : buffer[i] = Utterance(n - Len(buffer) + i)

\* The 31st segment arrived: the buffer holds segments 2 to 31.
C14_Witness ==
    /\ Cardinality(TasksOf(LongCall)) = MAX_BUFFER_SEGMENTS + 1
    /\ Len(transcriptBuffer[LongCall]) = MAX_BUFFER_SEGMENTS
    /\ transcriptBuffer[LongCall][1] = Utterance(2)
    /\ transcriptBuffer[LongCall][MAX_BUFFER_SEGMENTS] = Utterance(MAX_BUFFER_SEGMENTS + 1)

\* C15: a frame handed to the bridge's send reaches the speech-to-text
\* connection if and only if the connection is open when send is called; what
\* happened to a frame is settled then: no later step delivers a dropped frame
\* or takes a frame back.
C15_SendOnlyWhileOpen ==
    [][\A s \in Sessions :
         /\ Len(bridgeLog'[s]) >= Len(bridgeLog[s])
         /\ \A i \in 1..Len(bridgeLog[s]) : bridgeLog'[s][i] = bridgeLog[s][i]
         /\ \A i \in (Len(bridgeLog[s]) + 1)..Len(bridgeLog'[s]) :
                bridgeLog'[s][i].delivered <=> dgState[s] = "open"]_vars

\* A frame sent while the connection was not open was dropped, a later frame
\* was forwarded, and the connection has received only the later one.
C15_Witness ==
    \E s \in Sessions :
        /\ Len(bridgeLog[s]) = 2
        /\ ~bridgeLog[s][1].delivered
        /\ bridgeLog[s][2].delivered
        /\ dgReceived(s) = << bridgeLog[s][2].audio >>

\* sub can be had from seq by leaving elements out.
RECURSIVE IsSubsequence(_, _)
IsSubsequence(sub, seq) ==
    IF sub = <<>> THEN TRUE
    ELSE IF seq = <<>> THEN FALSE
    ELSE IF sub[1] = seq[1] THEN IsSubsequence(Tail(sub), Tail(seq))
    ELSE IsSubsequence(sub, Tail(seq))

\* C16: the frames the speech-to-text connection has received are the audio
\* of the session's inbound media messages with some left out: same bytes,
\* same order, none twice (send was called once per message).
C16_FramesInArrivalOrder ==
    \A s \in Sessions :
        /\ IsSubsequence(dgReceived(s), mediaIn[s])
        /\ Len(bridgeLog[s]) = Len(mediaIn[s])

\* Two different frames arrived and the connection received both, in order.
C16_Witness ==
    \E s \in Sessions :
        /\ Len(mediaIn[s]) = 2
        /\ mediaIn[s][1] # mediaIn[s][2]
        /\ dgReceived(s) = mediaIn[s]

\* C18: a step that handles an inbound message whose parsed type is none of
\* start, media, stop (an unknown event, a message with no event, text that
\* is no JSON, a media message without payload) changes nothing of the
\* process but the record of the message: the session's stream identifier,
\* buffer, cooldown set, bridge, socket and tasks stay as they are.
C18_UnknownMessagesIgnored ==
    [][(budget'.msgs < budget.msgs /\ lastMessage'.type \notin {"start", "media", "stop"}) =>
          UNCHANGED << sessionVars, recentClaims, outbound, pendingVerifications,
                       timers, tasks, sinceVerify >>]_vars

\* A session with a known stream identifier and an open bridge handled text
\* that is no JSON and is as alive as before.
C18_Witness ==
    \E s \in Sessions :
        /\ lastMessage = [sess |-> s, type |-> "error"]
        /\ streamSid[s] = SidA
        /\ conn[s] = "live"
        /\ readyState[s] = "OPEN"
        /\ dgState[s] = "open"

\* The bytes a frame carries, and the bytes of a run of frames in send order.
FrameBytes(frame) == Base64Decode(frame.payload)
RECURSIVE PayloadBytes(_)
PayloadBytes(frames) ==
    IF frames = <<>> THEN <<>> ELSE FrameBytes(frames[1]) \o PayloadBytes(Tail(frames))
SentOnOpenSocket ==
    /\ Called("sendAudioToTwilio")
    /\ \A k \in DOMAIN input.readings : input.readings[k] = "OPEN"

\* C19: on an open socket a buffer of L bytes goes out as ceil(L / 160)
\* frames; every frame but the last carries 160 bytes and the last carries
\* what is left (L mod 160 bytes, or 160 when L is a multiple of 160); no
\* frame is empty and an empty buffer gives no frame.
C19_FrameSizes ==
    SentOnOpenSocket =>
        LET L == Len(input.mulawBuffer)
            frames == output.value
            n == Len(frames)
        IN  /\ n = (L + 159) \div 160
            /\ \A i \in 1..n : Len(FrameBytes(frames[i])) > 0
            /\ \A i \in 1..(n - 1) : Len(FrameBytes(frames[i])) = 160
            /\ n > 0 => Len(FrameBytes(frames[n])) = IF L % 160 = 0 THEN 160 ELSE L % 160

\* 321 bytes went out as two full frames and a frame of one byte.
C19_Witness ==
    /\ SentOnOpenSocket
    /\ Len(input.mulawBuffer) = 321
    /\ Len(output.value) = 3
    /\ Len(FrameBytes(output.value[3])) = 1

\* C20: on an open socket the bytes of the frames, put together in send
\* order, are the buffer, and every frame is a media event under the stream
\* identifier passed in.
C20_PayloadsRebuildBuffer ==
    SentOnOpenSocket =>
        /\ PayloadBytes(output.value) = input.mulawBuffer
        /\ \A i \in 1..Len(output.value) :
              /\ output.value[i].event = "media"
              /\ output.value[i].streamSid = input.streamSid

\* A buffer of a full frame and a part went out and was put together again.
C20_Witness ==
    /\ SentOnOpenSocket
    /\ Len(input.mulawBuffer) = 200
    /\ Len(output.value) = 2
    /\ PayloadBytes(output.value) = BufferOf(200)
    /\ output.value[2].streamSid = SidA

\* The chunk sequence of a buffer: what an open socket is sent.
ChunkSequence == sendAudioToTwilio("OPEN", input.mulawBuffer, input.streamSid)
\* The passes of the loop in which the socket was found not open.
Withheld == {k \in DOMAIN input.readings : input.readings[k] # "OPEN"}

\* C21: the sink returns normally whatever the socket's state, sends no
\* frame in a pass that finds the socket not open, and sends nothing after
\* the first frame it withheld: what was sent is the chunk sequence up to
\* the first withheld frame, and the rest is gone.
C21_SentIsPrefixUntilNotOpen ==
    Called("sendAudioToTwilio") =>
        LET kept == IF Withheld = {} THEN Len(ChunkSequence) ELSE Min(Withheld) - 1
        IN  /\ output.value = SubSeq(ChunkSequence, 1, kept)
            /\ Len(output.value) = Cardinality(DOMAIN input.readings \ Withheld)

\* Three chunks, the socket open for the first only: one frame was sent.
C21_Witness ==
    /\ Called("sendAudioToTwilio")
    /\ input.readings = << "OPEN", "CLOSING", "CLOSED" >>
    /\ Len(output.value) = 1
    /\ Len(ChunkSequence) = 3

\* Where the bytes of the k-th streamed chunk start in the concatenation.
RECURSIVE ChunkStart(_, _)
ChunkStart(chunks, k) == IF k = 1 THEN 0 ELSE ChunkStart(chunks, k - 1) + Len(chunks[k - 1])
SynthesisFailed == ~input.response.ok \/ input.response.failed

\* C22: synthesize returns null when the request or the stream failed, never
\* a buffer of the chunks received so far; otherwise it returns the sample
\* rate 22050 and a buffer holding every chunk's bytes, chunk after chunk in
\* arrival order, and nothing else.
C22_SynthesisAllOrNothing ==
    Called("synthesize") =>
        LET chunks == input.response.chunks
            result == output.value
        IN  IF SynthesisFailed THEN result = NoAudio
            ELSE /\ ~result.null
                 /\ result.sampleRate = 22050
                 /\ Len(result.pcmBuffer) = ChunkStart(chunks, Len(chunks) + 1)
                 /\ \A k \in 1..Len(chunks) : \A j \in 1..Len(chunks[k]) :
                       result.pcmBuffer[ChunkStart(chunks, k) + j] = chunks[k][j]

\* A stream that failed after two chunks had arrived gave null.
C22_Witness ==
    /\ Called("synthesize")
    /\ input.response.failed
    /\ Len(input.response.chunks) = 2
    /\ input.response.chunks[1] # <<>>
    /\ output.value.null

\* C23: sessions share no state: a verifyClaim call returns at once as
\* "already pending" only because of a verification in flight in its own
\* call, never because another call is verifying the same text.
C23_SessionsIndependent ==
    [][\A t \in 1..Len(tasks) :
          (tasks[t].pc = "detecting" /\ tasks'[t].verifyCall = "deduped") =>
              \E t2 \in 1..Len(tasks) :
                  /\ SameCall(t, t2)
                  /\ Verifying(t2)
                  /\ tasks[t2].claim = tasks'[t].claim]_vars

\* The request carries the signature the router's token gives for it.
Signed == /\ input.req.signature # UNDEFINED
          /\ input.req.signature # <<>>
          /\ input.req.signature = ExpectedSignature(input.authToken, input.req)

IsTextBlock(block) == block.type = "text"
VerifiedText ==
    LET textBlocks == SelectSeq(input.response.content, IsTextBlock)
    IN  Trim(Join([i \in 1..Len(textBlocks) |-> textBlocks[i].text], <<>>))
HasCorrectionMarker(text) ==
    /\ Len(text) >= 11
    /\ SubSeq(text, 1, 11) = <<"C", "O", "R", "R", "E", "C", "T", "I", "O", "N", ":">>

\* C25: verifyClaim returns a correction exactly when the call succeeded and
\* the texts of all text blocks, joined in order and trimmed, begin with
\* "CORRECTION:"; the correction is what follows the marker, trimmed. Every
\* other response, and a failed call, gives null.
C25_CorrectionFromJoinedText ==
    Called("verifyClaim") =>
        IF input.response.ok /\ HasCorrectionMarker(VerifiedText)
        THEN output.value = Trim(SubSeq(VerifiedText, 12, Len(VerifiedText)))
        ELSE output.value = NULL

\* The marker came split over two text blocks and the correction was read.
C25_Witness ==
    /\ Called("verifyClaim")
    /\ Len(input.response.content) = 2
    /\ input.response.content[1] = TextBlock(<<"C", "O", "R", "R">>)
    /\ output.value = << "b" >>

Abs(x) == IF x < 0 THEN -x ELSE x
Sign(x) == IF x < 0 THEN -1 ELSE IF x > 0 THEN 1 ELSE 0
RoundTripped == Called("decodeMuLaw(encodeMuLaw)")

\* C26 as stated: for every 16-bit sample the decoded value is within a
\* fixed bound of the sample and has the sample's sign.
C26_SignAlwaysPreserved ==
    RoundTripped =>
        /\ Abs(output.value - input.sample) < 1024
        /\ Sign(output.value) = Sign(input.sample)

\* C26, amended: for every 16-bit sample the decoded value is within 512 of
\* the sample up to the clip threshold and within 644 beyond it; it never has
\* the opposite sign, and it is zero exactly for the samples -3..3; a sample
\* beyond the clip threshold decodes to the largest magnitude, 32124.
C26_RoundTripWithinBound ==
    RoundTripped =>
        LET x == input.sample
            d == output.value
        IN  /\ Abs(d - x) <= IF Abs(x) <= MULAW_CLIP THEN 512 ELSE 644
            /\ x > 0 => d >= 0
            /\ x < 0 => d <= 0
            /\ d = 0 <=> Abs(x) <= 3
            /\ Abs(x) > MULAW_CLIP => Abs(d) = 32124

\* The most negative sample was clipped and came back 644 away.
C26_Witness ==
    /\ RoundTripped
    /\ input.sample = -32768
    /\ output.value = -32124

\* C27: resampleLinear returns its input when the two rates are equal, and
\* otherwise floor(length * targetRate / sourceRate) samples, for every
\* length and pair of rates.
C27_OutputLengthIsFloor ==
    Called("resampleLinear") =>
        IF input.sourceRate = input.targetRate
        THEN output.value = input.samples
        ELSE Len(output.value) = (Len(input.samples) * input.targetRate) \div input.sourceRate

\* The decoded peak amplitude of a buffer of telephony audio.
Peak(mulawBuffer) ==
    IF mulawBuffer = <<>> THEN 0
    ELSE Max({Abs(decodeMuLawSample(mulawBuffer[i])) : i \in 1..Len(mulawBuffer)})
Attenuated == Called("attenuateAudio")

\* C28 as stated: the length is kept, a factor strictly between 0 and 1
\* makes the decoded peak of audible input strictly lower, and factor 0
\* leaves a peak below the noise floor of the codec near zero.
C28_PeakStrictlyLower ==
    Attenuated =>
        /\ Len(output.value) = Len(input.mulawBuffer)
        /\ (0 < input.num /\ input.num < input.den /\ Peak(input.mulawBuffer) > 0)
              => Peak(output.value) < Peak(input.mulawBuffer)
        /\ input.num = 0 => Peak(output.value) < 8

\* C28, amended: the length is kept for every factor; a factor of at most 1
\* never raises the decoded peak; a factor between 0 and 3/4 lowers it
\* strictly whenever the input's peak is above 16, and a factor of 1/2
\* leaves a peak of 8 at 8; factor 0 gives a decoded peak of exactly 0.
C28_AttenuationNeverLouder ==
    Attenuated =>
        LET before == Peak(input.mulawBuffer)
            after == Peak(output.value)
            between == 0 < input.num /\ 4 * input.num <= 3 * input.den
        IN  /\ Len(output.value) = Len(input.mulawBuffer)
            /\ input.num <= input.den => after <= before
            /\ (between /\ before > 16) => after < before
            /\ (2 * input.num = input.den /\ before = 8) => after = 8
            /\ input.num = 0 => after = 0

\* The session's factor 1/2 took the loudest code down to about half.
C28_Witness ==
    /\ Attenuated
    /\ input.num = 1 /\ input.den = 2
    /\ Len(input.mulawBuffer) = 2
    /\ Peak(input.mulawBuffer) = 32124
    /\ Peak(output.value) = 15996

\* C29: a verifyClaim call that finds its claim pending returns null at
\* once: the step issues no external call and leaves the pending set as it
\* was, so the entry of the call in flight stays until that call ends.
C29_EarlyReturnLeavesPending ==
    [][\A t \in 1..Len(tasks) :
          (tasks[t].pc = "detecting" /\ tasks'[t].verifyCall = "deduped") =>
              /\ tasks'[t].claim \in pendingVerifications
              /\ pendingVerifications' = pendingVerifications
              /\ tasks'[t].pc = "done"
              /\ tasks'[t].verifyEnd = "none"
              /\ tasks'[t].correction = NULL
              /\ \A t2 \in 1..Len(tasks) : Verifying(t2) => tasks'[t2] = tasks[t2]]_vars

\* A call returned early for a claim whose verification is still in flight
\* and still pending.
C29_Witness ==
    \E t1, t2 \in 1..Len(tasks) :
        /\ Verifying(t1)
        /\ tasks[t1].verifyCall = "external"
        /\ tasks[t2].verifyCall = "deduped"
        /\ tasks[t2].pc = "done"
        /\ tasks[t2].correction = NULL
        /\ tasks[t2].claim = tasks[t1].claim
        /\ tasks[t1].claim \in pendingVerifications

\* C30: the pending set is exactly the set of claim texts whose external
\* verification call is in flight; with no such call it is empty.
C30_PendingIsInFlight ==
    pendingVerifications = {tasks[t].claim : t \in {u \in 1..Len(tasks) : Verifying(u)}}

\* Two verification calls for different claims are in flight and both
\* claims, and nothing else, are pending.
C30_Witness ==
    /\ Cardinality(pendingVerifications) = 2
    /\ \E t1, t2 \in 1..Len(tasks) :
          /\ Verifying(t1) /\ Verifying(t2)
          /\ tasks[t1].claim # tasks[t2].claim
          /\ pendingVerifications = {tasks[t1].claim, tasks[t2].claim}

\* The task whose delivery step this is: its synthesis call returns in the step.
Delivers(t) ==
    /\ t <= Len(tasks)
    /\ tasks[t].pc = "synthesizing"
    /\ tasks'[t].pc = "done"
    /\ tasks'[t].delivery # "none"

\* C31 as stated: at a task's delivery step the check for a known stream
\* identifier is made against the identifier the session holds at that moment
\* (with the socket open, audio is discarded only if the session holds none),
\* and every frame the step sends carries the identifier the session holds.
C31_DeliveryUsesCurrentSid ==
    [][\A t \in 1..Len(tasks) : Delivers(t) =>
         LET s == tasks[t].sess IN
         /\ (readyState[s] = "OPEN" /\ SidTruthy(streamSid[s])) => tasks'[t].delivery = "sent"
         /\ \A i \in (Len(outbound[s]) + 1)..Len(outbound'[s]) :
                outbound'[s][i].streamSid = streamSid[s]]_vars

\* The session handled the transport's "stop" event, a socket close or a
\* socket error.
CallEnded(s) == seen[s] # {}

\* C32 as stated: once a session handled "stop", a socket close or a socket
\* error, no step delivers more inbound audio to the speech-to-text
\* connection, changes the session's stream identifier, or starts a new
\* detection task for the session.
C32_NothingAfterCallEnd ==
    [][\A s \in Sessions : CallEnded(s) =>
         /\ dgReceived(s)' = dgReceived(s)
         /\ streamSid'[s] = streamSid[s]
         /\ TasksOf(s)' = TasksOf(s)]_vars

\* What one spoken correction becomes on the wire of an open socket.
WhisperOf(pcm) ==
    attenuateAudio(convertToTelephonyAudio(pcm, TTS_SAMPLE_RATE), WHISPER_NUM, WHISPER_DEN)
WireOf(pcm) == sendAudioToTwilio("OPEN", WhisperOf(pcm), SidA)
Corrections == {SpeechA, SpeechB}

\* wire is the frames of whole corrections, one correction after the other.
RECURSIVE WholeCorrections(_)
WholeCorrections(wire) ==
    \/ wire = <<>>
    \/ \E pcm \in Corrections :
          LET frames == WireOf(pcm) IN
          /\ Len(wire) >= Len(frames)
          /\ SubSeq(wire, 1, Len(frames)) = frames
          /\ WholeCorrections(SubSeq(wire, Len(frames) + 1, Len(wire)))

\* C33: what a session has sent is always a sequence of whole corrections:
\* the frames of one correction are together and in buffer order, with no
\* frame of another correction among them, also when the two corrections'
\* pipelines overlapped.
C33_CorrectionsNotInterleaved ==
    \A s \in Sessions : WholeCorrections(outbound[s])

\* Two tasks of one call both delivered a two-frame correction; the one
\* started later finished first, and its frames come first, all of them.
C33_Witness ==
    \E t1, t2 \in 1..Len(tasks) :
        /\ t1 < t2
        /\ SameCall(t1, t2)
        /\ tasks[t1].whisperLen = Len(WhisperOf(SpeechA))
        /\ tasks[t2].whisperLen = Len(WhisperOf(SpeechB))
        /\ tasks[t1].sent = 2
        /\ tasks[t2].sent = 2
        /\ outbound[tasks[t1].sess] = WireOf(SpeechB) \o WireOf(SpeechA)
        /\ WireOf(SpeechA)[1] # WireOf(SpeechB)[1]
        /\ WireOf(SpeechA)[2] # WireOf(SpeechB)[2]

\* C34: in a call whose socket stays open under a known stream identifier,
\* every task that is started comes to its end, and if its detection gave a
\* claim, its verification a correction and its synthesis audio, then by the
\* end all ceil(L / 160) frames of the attenuated buffer of length L were
\* sent; the frames on the wire are those the tasks sent, each once.
C34_CorrectionEventuallyDelivered ==
    /\ [](\A s \in Sessions : Len(outbound[s]) = FramesSentBy(s, Len(tasks)))
    /\ \A t \in 1..(MaxResults + 1) :
          (t <= Len(tasks) /\ InFlight(tasks[t]))
              ~> /\ t <= Len(tasks)
                 /\ ~InFlight(tasks[t])
                 /\ tasks[t].synth = "audio" =>
                        /\ tasks[t].delivery = "sent"
                        /\ tasks[t].sent = (tasks[t].whisperLen + CHUNK_SIZE - 1) \div CHUNK_SIZE

\* A task went through detection, verification and synthesis and its
\* 163-byte correction is on the wire in two frames.
C34_Witness ==
    \E t \in 1..Len(tasks) :
        /\ tasks[t].verifyCall = "external"
        /\ tasks[t].verifyEnd = "returned"
        /\ tasks[t].synth = "audio"
        /\ tasks[t].whisperLen = 163
        /\ tasks[t].sent = 2
        /\ outbound[tasks[t].sess] = WireOf(SpeechA)

\* A step in which a collaborator call of task t comes back failed: the
\* detection or verification request raised, the synthesis request raised or
\* its stream broke off.
FailsIn(t) ==
    \/ \E outcome \in DetectOutcomes : ~outcome.ok /\ DetectReturn(t, outcome)
    \/ \E outcome \in VerifyOutcomes : ~outcome.ok /\ VerifyReturn(t, outcome)
    \/ \E outcome \in SynthOutcomes : (~outcome.ok \/ outcome.failed) /\ SynthReturn(t, outcome)

\* C35: a step in which a stage of a task fails ends that task with nothing
\* whispered and no delivery attempted, and touches nothing else: the
\* session's connection, socket, bridge, stream identifier, transcript buffer
\* and wire, the other tasks and the cooldown entries stay as they were, and
\* a failed verification's claim is no longer pending.
C35_FailureStaysInTask ==
    [][\A t \in 1..Len(tasks) : FailsIn(t) =>
         /\ ~InFlight(tasks'[t])
         /\ tasks'[t].sent = 0
         /\ tasks'[t].delivery = "none"
         /\ UNCHANGED << sessionVars, outbound, recentClaims, timers >>
         /\ Len(tasks') = Len(tasks)
         /\ \A u \in 1..Len(tasks) : u # t => tasks'[u] = tasks[u]
         /\ pendingVerifications' =
                IF Verifying(t) THEN pendingVerifications \ {tasks[t].claim} ELSE pendingVerifications]_vars

\* A task's verification failed and a later one's synthesis failed; the
\* call went on: a media frame that arrived while a task was in flight was
\* forwarded, and the later segment's detection had been dispatched and ran.
C35_Witness ==
    \E t1, t2 \in 1..Len(tasks) :
        /\ t1 < t2
        /\ SameCall(t1, t2)
        /\ tasks[t1].verifyEnd = "error"
        /\ tasks[t2].synth = "null"
        /\ conn[tasks[t1].sess] = "live"
        /\ readyState[tasks[t1].sess] = "OPEN"
        /\ \E i \in 1..Len(bridgeLog[tasks[t1].sess]) :
              /\ bridgeLog[tasks[t1].sess][i].busy
              /\ bridgeLog[tasks[t1].sess][i].delivered

\* The pending cooldown timers of session s for a claim text.
TimersFor(s, claim) ==
    {i \in 1..Len(timers) : timers[i].sess = s /\ timers[i].claim = claim}

\* The task whose detection call returns a claim in this step.
Detects(t) == tasks[t].pc = "detecting" /\ tasks'[t].pc # "detecting" /\ Truthy(tasks'[t].claim)

\* C36: a text under cooldown has exactly one timer and every timer belongs
\* to a text under cooldown; a detection of a text under cooldown is skipped
\* and leaves the timers as they are; no step gives a running timer more
\* time; an entry is removed only once a full window has passed since it was
\* made; and a detection of a text that is not (or no longer) under cooldown
\* calls verifyClaim and starts a full window.
C36_CooldownWindowFixed ==
    /\ [](\A s \in Sessions :
            /\ \A claim \in recentClaims[s] : Cardinality(TimersFor(s, claim)) = 1
            /\ \A i \in 1..Len(timers) : timers[i].claim \in recentClaims[timers[i].sess])
    /\ [][/\ \A i \in 1..Len(timers), j \in 1..Len(timers') :
                (timers[i].sess = timers'[j].sess /\ timers[i].claim = timers'[j].claim)
                    => timers'[j].left <= timers[i].left
          /\ \A s \in Sessions : \A claim \in recentClaims[s] \ recentClaims'[s] :
                VerifyGap(s, claim) = CLAIM_COOLDOWN_MS
          /\ \A t \in 1..Len(tasks) : Detects(t) =>
                LET s == tasks[t].sess
                    claim == tasks'[t].claim
                IN  IF claim \in recentClaims[s]
                    THEN /\ tasks'[t].cooldownHit
                         /\ tasks'[t].verifyCall = "none"
                         /\ timers' = timers
                         /\ recentClaims' = recentClaims
                    ELSE /\ tasks'[t].verifyCall # "none"
                         /\ claim \in recentClaims'[s]
                         /\ timers' = Append(timers, [sess |-> s, claim |-> claim,
                                                      left |-> CLAIM_COOLDOWN_MS])]_vars

\* A text's window ran out and its entry was removed; the next detection of
\* the text in that call was verified again and the text is under a new, full
\* window with one timer.
C36_Witness ==
    \E t1, t2 \in 1..Len(tasks) :
        /\ t1 < t2
        /\ SameCall(t1, t2)
        /\ SameClaim(t1, t2)
        /\ tasks[t1].verifyCall = "external"
        /\ tasks[t2].verifyCall = "external"
        /\ tasks[t2].verifyGap = CLAIM_COOLDOWN_MS
        /\ timers = << [sess |-> tasks[t2].sess, claim |-> tasks[t2].claim, left |-> CLAIM_COOLDOWN_MS] >>
        /\ recentClaims[tasks[t2].sess] = {tasks[t2].claim}

\* Task t is the n-th task of its session: the one started for the n-th
\* final segment of the call, Utterance(n).
SegmentNo(t) == Cardinality({u \in TasksOf(tasks[t].sess) : u <= t})

\* The segments from..to of a call, joined by single spaces.
Joined(from, to) == Join([i \in 1..(to - from + 1) |-> Utterance(from + i - 1)], <<" ">>)

\* C37: for as long as the task started for the n-th final segment runs, the
\* context it gave to detection is segments max(1, n - 9) to n joined by
\* spaces: the last min(10, n) of the buffer as it was when segment n had just
\* been appended, ending with segment n, whatever arrived afterwards.
C37_ContextIsBufferAtDispatch ==
    \A t \in 1..Len(tasks) :
        InFlight(tasks[t]) =>
            LET n == SegmentNo(t)
                from == IF n > CONTEXT_SEGMENTS THEN n - CONTEXT_SEGMENTS + 1 ELSE 1
            IN  /\ tasks[t].segment = Utterance(n)
                /\ tasks[t].context = Joined(from, n)

\* The task of segment 30 is still at its detection call, with segments 21
\* to 30 as context, after segment 31 arrived and pushed segment 1 out of the
\* buffer.
C37_Witness ==
    \E t \in 1..Len(tasks) :
        /\ tasks[t].pc = "detecting"
        /\ SegmentNo(t) = MAX_BUFFER_SEGMENTS
        /\ tasks[t].context = Joined(MAX_BUFFER_SEGMENTS - CONTEXT_SEGMENTS + 1, MAX_BUFFER_SEGMENTS)
        /\ Len(tasks) = MAX_BUFFER_SEGMENTS + 1
        /\ transcriptBuffer[LongCall][MAX_BUFFER_SEGMENTS] = Utterance(MAX_BUFFER_SEGMENTS + 1)
        /\ transcriptBuffer[LongCall][1] = Utterance(2)

\* C38: a connection that presents another token than the configured one,
\* or none, is closed in the step that accepts it, with no speech-to-text
\* connection; and a session so rejected never has one, never leaves the
\* closed side, and has handled no message, forwarded no audio, started no
\* task and sent nothing.
C38_WrongTokenOpensNoSession ==
    /\ [][\A s \in Sessions, token \in Tokens :
            (token # MEDIA_SECRET /\ Connection(s, token)) =>
                /\ conn'[s] = "rejected"
                /\ readyState'[s] = "CLOSING"
                /\ dgState'[s] = "none"]_vars
    /\ [](\A s \in Sessions : conn[s] = "rejected" =>
            /\ dgState[s] = "none"
            /\ readyState[s] # "OPEN"
            /\ streamSid[s] = SID_NULL
            /\ mediaIn[s] = <<>>
            /\ bridgeLog[s] = <<>>
            /\ transcriptBuffer[s] = <<>>
            /\ TasksOf(s) = {}
            /\ outbound[s] = <<>>
            /\ closeRequests[s] = 0
            /\ lastMessage.sess # s)

\* One connection was rejected for its token; another, made with the right
\* token, is a call in which a segment was heard and a task started.
C38_Witness ==
    \E s1, s2 \in Sessions :
        /\ conn[s1] = "rejected"
        /\ readyState[s1] = "CLOSING"
        /\ conn[s2] = "live"
        /\ dgState[s2] = "open"
        /\ TasksOf(s2) # {}
        /\ budget.conns = 0

\* The empty string: what is left of "CLAIM:" or "CORRECTION:" with nothing
\* but whitespace after the marker.
EMPTY == <<>>

\* C39: a task whose detection gave an empty claim called neither verifyClaim
\* nor synthesize and sent nothing, and the empty claim is in no cooldown set,
\* under no timer and not pending; a task whose verification gave an empty
\* correction called no synthesis, attempted no delivery and sent no frame.
C39_EmptyResultsStopTheTask ==
    /\ \A t \in 1..Len(tasks) :
          /\ tasks[t].claim = EMPTY =>
                /\ ~InFlight(tasks[t])
                /\ ~tasks[t].cooldownHit
                /\ tasks[t].verifyCall = "none"
                /\ tasks[t].synth = "none"
                /\ tasks[t].sent = 0
          /\ tasks[t].correction = EMPTY =>
                /\ ~InFlight(tasks[t])
                /\ tasks[t].verifyEnd = "returned"
                /\ tasks[t].synth = "none"
                /\ tasks[t].delivery = "none"
                /\ tasks[t].sent = 0
    /\ EMPTY \notin pendingVerifications
    /\ \A s \in Sessions : EMPTY \notin recentClaims[s]
    /\ \A i \in 1..Len(timers) : timers[i].claim # EMPTY

\* In one call, one detection came back as the bare claim marker and one
\* verification as the bare correction marker; both tasks ended there, with
\* the verified claim alone under cooldown and nothing on the wire.
C39_Witness ==
    \E t1, t2 \in 1..Len(tasks) :
        /\ SameCall(t1, t2)
        /\ tasks[t1].claim = EMPTY
        /\ tasks[t2].correction = EMPTY
        /\ Truthy(tasks[t2].claim)
        /\ recentClaims[tasks[t2].sess] = {tasks[t2].claim}
        /\ Len(timers) = 1
        /\ outbound[tasks[t2].sess] = <<>>
        /\ detectClaimResult([ok |-> TRUE, content |-> << Text(CLAIM_MARKER, <<>>) >>]) = EMPTY
        /\ verifyClaimResult([ok |-> TRUE, content |-> << Text(CORRECTION_MARKER, <<>>) >>]) = EMPTY

====
